---- MODULE Spec2Model ----
(***************************************************************************)
(* Model of showfs' archive read cache: the page allocator, the allocated  *)
(* page header, the page manager with its weak/strong references           *)
(* (src/src/archive/page.rs) and the per-member cache with its readers     *)
(* (src/src/archive/reader.rs).                                            *)
(*                                                                         *)
(* The arena is modelled cell by cell: every page is PAGE_SIZE cells, and  *)
(* header structs, free-run nodes, map entries and payload bytes are all   *)
(* written into those cells, so that aliasing between the roles a page     *)
(* takes over time is part of the state.  The contents of a page that is   *)
(* free, or that the allocator has just handed out, are indeterminate:     *)
(* its cells hold Junk, which is no map entry and no payload byte, so that *)
(* a read that depends on stale or unwritten memory shows.                 *)
(*                                                                         *)
(* Sizes are scaled down: the source has PAGE_SIZE = 4096, 4-byte map      *)
(* entries and a 48-byte header (embed_size 4048, embed_map_len 1012,      *)
(* PAGE_MAP_LEN 1024).  The model keeps the formulas of the source and     *)
(* instantiates them with PAGE_SIZE = 4, 1-cell map entries and a 2-cell   *)
(* header (embed_size 2, embed_map_len 2, PAGE_MAP_LEN 4), which makes the *)
(* three layouts (embed, direct, relative with a partly filled last        *)
(* indirection page) fit in an arena of a few pages.                       *)
(***************************************************************************)
EXTENDS Integers, Sequences, FiniteSets, TLC

\* ------------------------------------------------------------------------
\* Sizes (scaled, see above) and bounds
\* ------------------------------------------------------------------------
PAGE_SIZE == 4
U32_SIZE == 1
HEADER_SIZE == 2
FREE_NODE_SIZE == 1

\* The number of successful allocations in one run: every allocation gets a
\* referencer cell (Rc<RefCell<*mut AllocatedPage>>) of its own, named 1, 2, ...
MaxCells == 3

CellIds == 1 .. MaxCells

\* ptr::null_mut()
NoPage == -1
\* what a map read yields when the cell read holds no map entry
WildPage == -9

\* Cell encodings: the cells of a header struct, of a free-run node, a map entry
\* (MapTag + page offset), and a cell whose contents are indeterminate.  Payload
\* bytes are 0 .. MapTag - 1.
HdrMeta == -2
FreeMeta == -3
MapTag == 100
Junk == -5

\* usize arithmetic (scaled from 2^64): `i as usize` and the wrapping sum
USIZE_MOD == 65536
as_usize(i) == i % USIZE_MOD

Min(a, b) == IF a < b THEN a ELSE b
CeilDiv(a, b) == (a + b - 1) \div b

\* ------------------------------------------------------------------------
\* page.rs: sizing
\* ------------------------------------------------------------------------
PAGE_MAP_LEN == PAGE_SIZE \div U32_SIZE
embed_size == PAGE_SIZE - HEADER_SIZE
embed_map_len == embed_size \div U32_SIZE

\* A plausible slip: the data pages are rounded down.
calc_page_count_floor(bytes) ==
  LET data_pages == IF bytes <= embed_size THEN 0 ELSE bytes \div PAGE_SIZE
      rel_map_pages == IF data_pages <= embed_map_len THEN 0
                       ELSE CeilDiv(data_pages, PAGE_MAP_LEN)
  IN  <<data_pages, rel_map_pages>>

\* whether the sum bytes + PAGE_SIZE - 1 of calc_page_count exceeds usize: a
\* panic in a build with overflow checks, the wrapped sum otherwise
calc_page_count_overflows(bytes) ==
  bytes > embed_size /\ bytes + PAGE_SIZE - 1 >= USIZE_MOD

\* AllocatedPage::calc_page_count: (data count, rel map count), the sum in usize
calc_page_count(bytes) ==
  LET data_pages == IF bytes <= embed_size THEN 0
                    ELSE as_usize(bytes + PAGE_SIZE - 1) \div PAGE_SIZE
      rel_map_pages == IF data_pages <= embed_map_len THEN 0
                       ELSE CeilDiv(data_pages, PAGE_MAP_LEN)
  IN  <<data_pages, rel_map_pages>>

need_pages(bytes) ==
  LET c == calc_page_count(bytes) IN c[1] + c[2] + 1

all_pages(h) == need_pages(h.data_pages * PAGE_SIZE)

\* ------------------------------------------------------------------------
\* The page manager as a value.  Fields:
\*   mem        the arena, mem[p][i] the i-th cell of page p
\*   hdr        the AllocatedPage struct overlaid on page p (live: constructed)
\*   free_list  the allocator's free list, front first; a run is its FreePage
\*              node: last (the page holding the node) and count
\*   free_count PageAllocator.free_count
\*   lru        use_page_lru, front first, as header pages
\*   cells      the referencer cells: ptr (header page or NoPage), rc (Rc strong count)
\*   ncells     how many referencer cells have been created
\*   panic      a panic (expect("oom"), unwrap of null, slice index) was hit
\*   ub         a wild pointer was followed or a dead header was used
\*   log        the steps of the deallocation under way, in order: "unlink" h,
\*              "null" c, "read" p (a field or map entry of page p), "free" p
\* ------------------------------------------------------------------------
NoHdr == [live |-> FALSE, data_pages |-> 0, use_count |-> 0, referencer |-> 0]
NoCell == [ptr |-> NoPage, rc |-> 0]

JunkPage == [i \in 0 .. (PAGE_SIZE - 1) |-> Junk]

PagesOf(pm) == DOMAIN pm.mem

\* FreePage::from_page: the node is constructed in the last page of the run.
from_page(mem, top, count) ==
  LET last == top + (count - 1)
  IN  [mem EXCEPT ![last] = [i \in 0 .. (PAGE_SIZE - 1) |->
                               IF i < FREE_NODE_SIZE THEN FreeMeta ELSE Junk]]

\* PageManager::new / PageAllocator::new for an arena of max_pages pages
PageManager_new(max_pages) ==
  [ mem |-> from_page([p \in 0 .. (max_pages - 1) |-> JunkPage], 0, max_pages),
    hdr |-> [p \in 0 .. (max_pages - 1) |-> NoHdr],
    free_list |-> << [last |-> max_pages - 1, count |-> max_pages] >>,
    free_count |-> max_pages,
    lru |-> << >>,
    cells |-> [c \in CellIds |-> NoCell],
    ncells |-> 0,
    panic |-> FALSE,
    ub |-> FALSE,
    log |-> << >> ]

\* FreePage::top
top(run) == run.last - (run.count - 1)

free_pages(pm) == pm.free_count

\* PageAllocator::allocate with FreePage::reave_page: [pm, page], page = NoPage for None.
PageAllocator_allocate(pm) ==
  IF pm.free_count = 0 THEN [pm |-> pm, page |-> NoPage]
  ELSE LET pm1 == [pm EXCEPT !.free_count = @ - 1]
       IN  IF pm1.free_list = << >> THEN [pm |-> pm1, page |-> NoPage]
           ELSE LET front == Head(pm1.free_list)
                    t == top(front)
                    rest == Tail(pm1.free_list)
                IN  [pm |-> [pm1 EXCEPT !.free_list =
                               IF front.count - 1 = 0 THEN rest
                               ELSE << [front EXCEPT !.count = @ - 1] >> \o rest,
                               !.mem[t] = JunkPage],
                     page |-> t]

\* A plausible slip: the front run is enlarged whether or not the page is next to it.
PageAllocator_free_always_enlarge(pm, page) ==
  LET pm1 == [pm EXCEPT !.free_count = @ + 1, !.log = Append(@, << "free", page >>)]
  IN  IF pm1.free_list /= << >>
      THEN [pm1 EXCEPT !.free_list[1].count = @ + 1, !.mem[page] = JunkPage]
      ELSE [pm1 EXCEPT !.mem = from_page(@, page, 1),
                       !.free_list = << [last |-> page, count |-> 1] >> \o @]

\* A plausible slip: the freed page is compared with the last page of the
\* front run, where its node is, instead of with its top.
PageAllocator_free_before_node(pm, page) ==
  LET pm1 == [pm EXCEPT !.free_count = @ + 1, !.log = Append(@, << "free", page >>)]
  IN  IF pm1.free_list /= << >> /\ page + 1 = Head(pm1.free_list).last
      THEN [pm1 EXCEPT !.free_list[1].count = @ + 1, !.mem[page] = JunkPage]
      ELSE [pm1 EXCEPT !.mem = from_page(@, page, 1),
                       !.free_list = << [last |-> page, count |-> 1] >> \o @]

\* A plausible slip: the freed page is linked but free_count is not raised.
PageAllocator_free_uncounted(pm, page) ==
  LET pm1 == [pm EXCEPT !.log = Append(@, << "free", page >>)]
  IN  IF pm1.free_list /= << >> /\ page + 1 = top(Head(pm1.free_list))
      THEN [pm1 EXCEPT !.free_list[1].count = @ + 1, !.mem[page] = JunkPage]
      ELSE [pm1 EXCEPT !.mem = from_page(@, page, 1),
                       !.free_list = << [last |-> page, count |-> 1] >> \o @]

\* PageAllocator::free with FreePage::enlarge
PageAllocator_free(pm, page) ==
  LET pm1 == [pm EXCEPT !.free_count = @ + 1, !.log = Append(@, << "free", page >>)]
  IN  IF pm1.free_list /= << >> /\ page + 1 = top(Head(pm1.free_list))
      THEN [pm1 EXCEPT !.free_list[1].count = @ + 1, !.mem[page] = JunkPage]
      ELSE [pm1 EXCEPT !.mem = from_page(@, page, 1),
                       !.free_list = << [last |-> page, count |-> 1] >> \o @]

\* A map entry read from page p at cell `at`: the page offset stored there,
\* WildPage when the cell holds no map entry.
map_read(pm, p, at) ==
  IF p \in PagesOf(pm) /\ at \in 0 .. (PAGE_SIZE - 1) /\ pm.mem[p][at] >= MapTag
  THEN pm.mem[p][at] - MapTag
  ELSE WildPage

\* AllocatedPage::allocate_and_set_pages_one over the map slots i .. len-1 of
\* page p, whose slot 0 is at cell `at0`.
RECURSIVE allocate_and_set_pages_one(_, _, _, _, _)
allocate_and_set_pages_one(pm, p, at0, i, len) ==
  IF i >= len \/ pm.panic THEN pm
  ELSE LET a == PageAllocator_allocate(pm)
       IN  IF a.page = NoPage THEN [a.pm EXCEPT !.panic = TRUE]
           ELSE allocate_and_set_pages_one(
                  [a.pm EXCEPT !.mem[p][at0 + i * U32_SIZE] = MapTag + a.page],
                  p, at0, i + 1, len)

\* the length of the i-th (0-based) indirection map
rel_map_len(i, rel_map_pages, data_pages) ==
  IF i + 1 = rel_map_pages /\ data_pages % PAGE_MAP_LEN > 0
  THEN data_pages % PAGE_MAP_LEN
  ELSE PAGE_MAP_LEN

\* AllocatedPage::allocate, second level: the data pages of each indirection page.
RECURSIVE allocate_second_level(_, _, _, _, _)
allocate_second_level(pm, hp, i, rel_map_pages, data_pages) ==
  IF i >= rel_map_pages \/ pm.panic THEN pm
  ELSE LET offset == map_read(pm, hp, HEADER_SIZE + i * U32_SIZE)
       IN  IF offset \notin PagesOf(pm) THEN [pm EXCEPT !.ub = TRUE]
           ELSE allocate_second_level(
                  allocate_and_set_pages_one(pm, offset, 0, 0,
                      rel_map_len(i, rel_map_pages, data_pages)),
                  hp, i + 1, rel_map_pages, data_pages)

\* AllocatedPage::allocate(bytes, lru_head, allocator) with the fresh referencer
\* cell c; the WeakRefPage returned holds c.
AllocatedPage_allocate(pm, bytes, c) ==
  LET cnt == calc_page_count(bytes)
      data_pages == cnt[1]
      rel_map_pages == cnt[2]
      map_len == IF rel_map_pages > 0 THEN rel_map_pages ELSE data_pages
      a == PageAllocator_allocate(pm)
      hp == a.page
  IN  IF hp = NoPage THEN [a.pm EXCEPT !.panic = TRUE]
      ELSE LET pm1 == [a.pm EXCEPT
                         !.mem[hp] = [i \in 0 .. (PAGE_SIZE - 1) |->
                                        IF i < HEADER_SIZE THEN HdrMeta ELSE @[i]],
                         !.hdr[hp] = [live |-> TRUE, data_pages |-> data_pages,
                                      use_count |-> 0, referencer |-> c],
                         !.cells[c] = [ptr |-> hp, rc |-> 2],
                         !.ncells = c,
                         !.lru = << hp >> \o @]
           IN  IF map_len > embed_map_len THEN [pm1 EXCEPT !.panic = TRUE]
               ELSE allocate_second_level(
                      allocate_and_set_pages_one(pm1, hp, HEADER_SIZE, 0, map_len),
                      hp, 0, rel_map_pages, data_pages)

\* Dropping one Rc clone of cell c.
rc_drop(pm, c) == [pm EXCEPT !.cells[c].rc = @ - 1]

\* A plausible slip: the link stays in the list.
Remove_nothing(seq, x) == seq

\* Link::unlink on the list as a sequence
Remove(seq, x) == SelectSeq(seq, LAMBDA y : y /= x)

\* AllocatedPage::deallocate_pages_one over the map slots len-1 .. 0 of page p,
\* whose slot 0 is at cell `at0`; i is the loop counter.
RECURSIVE deallocate_pages_one(_, _, _, _)
deallocate_pages_one(pm, p, at0, i) ==
  IF i <= 0 THEN pm
  ELSE LET offset == map_read(pm, p, at0 + (i - 1) * U32_SIZE)
           pm1 == [pm EXCEPT !.log = Append(@, << "read", p >>)]
       IN  IF offset \notin PagesOf(pm) THEN [pm1 EXCEPT !.ub = TRUE]
           ELSE deallocate_pages_one(PageAllocator_free(pm1, offset), p, at0, i - 1)

\* AllocatedPage::deallocate, the loop over the indirection pages.
RECURSIVE deallocate_second_level(_, _, _, _, _)
deallocate_second_level(pm, hp, i, rel_map_pages, data_pages) ==
  IF i <= 0 THEN pm
  ELSE LET len == rel_map_len(i - 1, rel_map_pages, data_pages)
           rel_map_offset == map_read(pm, hp, HEADER_SIZE + (i - 1) * U32_SIZE)
           pm1 == [pm EXCEPT !.log = Append(@, << "read", hp >>)]
       IN  IF rel_map_offset \notin PagesOf(pm) THEN [pm1 EXCEPT !.ub = TRUE]
           ELSE deallocate_second_level(
                  deallocate_pages_one(pm1, rel_map_offset, 0, len),
                  hp, i - 1, rel_map_pages, data_pages)

\* A plausible slip: the referencer cell keeps pointing at the header.
break_reference_skip(pm, c) == pm

\* AllocatedPage::deallocate, "break reference": the referencer cell is nulled.
break_reference(pm, c) == [pm EXCEPT !.cells[c].ptr = NoPage]

\* A plausible slip: the pages of the header's map are freed before the pages
\* the indirection pages refer to.
AllocatedPage_deallocate_maps_first(pm, hp) ==
  IF hp \notin PagesOf(pm) \/ ~pm.hdr[hp].live THEN [pm EXCEPT !.ub = TRUE]
  ELSE
  LET header == pm.hdr[hp]
      cnt == calc_page_count(header.data_pages * PAGE_SIZE)
      data_pages == cnt[1]
      rel_map_pages == cnt[2]
      map_len == IF rel_map_pages > 0 THEN rel_map_pages ELSE data_pages
      pm0 == [pm EXCEPT !.lru = Remove(@, hp),
                        !.log = @ \o << << "read", hp >>, << "unlink", hp >>,
                                       << "null", header.referencer >> >>]
      pm1 == break_reference(pm0, header.referencer)
      pm2 == deallocate_pages_one(pm1, hp, HEADER_SIZE, map_len)
      pm3 == deallocate_second_level(pm2, hp, rel_map_pages, rel_map_pages, data_pages)
      pm4 == rc_drop([pm3 EXCEPT !.hdr[hp] = NoHdr,
                                 !.log = Append(@, << "read", hp >>)],
                     header.referencer)
  IN  PageAllocator_free(pm4, hp)

\* AllocatedPage::deallocate(raw, allocator)
AllocatedPage_deallocate(pm, hp) ==
  IF hp \notin PagesOf(pm) \/ ~pm.hdr[hp].live THEN [pm EXCEPT !.ub = TRUE]
  ELSE
  LET header == pm.hdr[hp]
      cnt == calc_page_count(header.data_pages * PAGE_SIZE)
      data_pages == cnt[1]
      rel_map_pages == cnt[2]
      map_len == IF rel_map_pages > 0 THEN rel_map_pages ELSE data_pages
      \* header.data_pages is read; unlink me, break reference
      pm0 == [pm EXCEPT !.lru = Remove(@, hp),
                        !.log = @ \o << << "read", hp >>, << "unlink", hp >>,
                                       << "null", header.referencer >> >>]
      pm1 == break_reference(pm0, header.referencer)
      pm2 == deallocate_second_level(pm1, hp, rel_map_pages, rel_map_pages, data_pages)
      pm3 == deallocate_pages_one(pm2, hp, HEADER_SIZE, map_len)
      \* the header is dropped (its Rc clone with it), then its page is freed
      pm4 == rc_drop([pm3 EXCEPT !.hdr[hp] = NoHdr,
                                 !.log = Append(@, << "read", hp >>)],
                     header.referencer)
  IN  PageAllocator_free(pm4, hp)

\* the deallocation is over: its steps are no part of the page manager
deallocated(pm) == [pm EXCEPT !.log = << >>]

\* A plausible slip: an allocation counts as used only from the second holder on.
is_used_from_two(h) == h.use_count > 1

\* A plausible slip: no allocation counts as used.
is_used_never(h) == FALSE

\* AllocatedPage::is_used
is_used(h) == h.use_count > 0

Reverse(seq) == [i \in 1 .. Len(seq) |-> seq[Len(seq) + 1 - i]]

\* PageManager::free_old_pages: the walk over the LRU from the tail.  `walk` is
\* what iter_reverse_mut still has to yield; the iterator has stepped past the
\* current header before that header is unlinked.
RECURSIVE free_old_pages_walk(_, _, _)
free_old_pages_walk(pm, walk, lwm_pages) ==
  IF walk = << >> THEN [pm |-> pm, ok |-> FALSE]
  ELSE LET page == Head(walk)
       IN  IF is_used(pm.hdr[page])
           THEN free_old_pages_walk(pm, Tail(walk), lwm_pages)
           ELSE LET pages == all_pages(pm.hdr[page])
                    pm1 == deallocated(AllocatedPage_deallocate(pm, page))
                IN  IF pages >= lwm_pages THEN [pm |-> pm1, ok |-> TRUE]
                    ELSE free_old_pages_walk(pm1, Tail(walk), lwm_pages - pages)

\* A plausible slip: the walk starts at the head of the LRU (iter_mut).
free_old_pages_from_head(pm, lwm_pages) ==
  free_old_pages_walk(pm, pm.lru, lwm_pages)

free_old_pages(pm, lwm_pages) ==
  free_old_pages_walk(pm, Reverse(pm.lru), lwm_pages)

\* PageManager::allocate(bytes): [pm, ok]; ok = FALSE is None, otherwise the
\* WeakRefPage returned holds the referencer cell c.
PageManager_allocate(pm, bytes, c) ==
  LET need == need_pages(bytes)
  IN  IF need > free_pages(pm)
      THEN LET f == free_old_pages(pm, need - free_pages(pm))
           IN  IF ~f.ok THEN [pm |-> f.pm, ok |-> FALSE]
               ELSE [pm |-> AllocatedPage_allocate(f.pm, bytes, c), ok |-> TRUE]
      ELSE [pm |-> AllocatedPage_allocate(pm, bytes, c), ok |-> TRUE]

\* The referencer cell the next allocation creates (Rc::new in AllocatedPage::allocate).
FreshCell(pm) == pm.ncells + 1

\* ------------------------------------------------------------------------
\* page.rs: WeakRefPage, RefPage
\* ------------------------------------------------------------------------
\* WeakRefPage::upgrade: Some iff the cell is not null.
can_upgrade(pm, c) == pm.cells[c].ptr /= NoPage

\* A plausible slip: the use count is not incremented.
RefPage_new_noinc(pm, c) == [pm EXCEPT !.cells[c].rc = @ + 1]

\* RefPage::new on a clone of cell c
RefPage_new(pm, c) ==
  LET hp == pm.cells[c].ptr
  IN  IF hp = NoPage THEN [pm EXCEPT !.panic = TRUE]
      ELSE IF ~pm.hdr[hp].live THEN [pm EXCEPT !.ub = TRUE]
      ELSE [pm EXCEPT !.hdr[hp].use_count = @ + 1, !.cells[c].rc = @ + 1]

\* Drop for RefPage, then the drop of its Rc
RefPage_drop(pm, c) ==
  LET hp == pm.cells[c].ptr
  IN  IF hp = NoPage THEN [pm EXCEPT !.panic = TRUE]
      ELSE IF ~pm.hdr[hp].live THEN [pm EXCEPT !.ub = TRUE]
      ELSE IF pm.hdr[hp].use_count = 0 THEN [pm EXCEPT !.panic = TRUE]
      ELSE rc_drop([pm EXCEPT !.hdr[hp].use_count = @ - 1], c)

\* RefPage::downgrade: a WeakRefPage on a clone of the cell
RefPage_downgrade(pm, c) == [pm EXCEPT !.cells[c].rc = @ + 1]

\* the drop of a WeakRefPage
WeakRefPage_drop(pm, c) == rc_drop(pm, c)

\* A plausible slip: the header is left where it is in the LRU.
update_lru_stay(pm, hp) == pm

\* AllocatedPage::update_lru
update_lru(pm, hp) == [pm EXCEPT !.lru = << hp >> \o Remove(@, hp)]

\* AllocatedPage::as_slice_mut(n): the payload page n as [page, start, len],
\* NoSlice for None.
NoSlice == [page |-> NoPage, start |-> 0, len |-> 0]

\* A plausible slip: the relative layout always goes through its first indirection page.
as_slice_mut_first_map(pm, hp, n) ==
  LET h == pm.hdr[hp]
  IN  IF h.data_pages = 0 /\ n = 0
      THEN [page |-> hp, start |-> HEADER_SIZE, len |-> embed_size]
      ELSE IF n < h.data_pages
      THEN LET relative == h.data_pages > embed_map_len
               mp == IF relative THEN map_read(pm, hp, HEADER_SIZE) ELSE hp
               at == IF relative THEN (n % PAGE_MAP_LEN) * U32_SIZE
                     ELSE HEADER_SIZE + n * U32_SIZE
           IN  [page |-> map_read(pm, mp, at), start |-> 0, len |-> PAGE_SIZE]
      ELSE NoSlice

as_slice_mut(pm, hp, n) ==
  LET h == pm.hdr[hp]
  IN  IF h.data_pages = 0 /\ n = 0
      THEN [page |-> hp, start |-> HEADER_SIZE, len |-> embed_size]
      ELSE IF n < h.data_pages
      THEN LET relative == h.data_pages > embed_map_len
               mp == IF relative THEN map_read(pm, hp, HEADER_SIZE + (n \div PAGE_MAP_LEN) * U32_SIZE)
                     ELSE hp
               at == IF relative THEN (n % PAGE_MAP_LEN) * U32_SIZE
                     ELSE HEADER_SIZE + n * U32_SIZE
           IN  [page |-> map_read(pm, mp, at), start |-> 0, len |-> PAGE_SIZE]
      ELSE NoSlice

\* A plausible slip: the iterator yields the whole page whatever the offset.
iter_next_whole(pm, hp, n, offset) ==
  as_slice_mut(pm, hp, n)

\* SliceIter / SliceIterMut: the slice the iterator in state (n, offset) yields
\* next, s[offset..] of page n; NoSlice at the end.  A start beyond the slice
\* is a slice index panic (len < 0 here).
iter_next(pm, hp, n, offset) ==
  LET s == as_slice_mut(pm, hp, n)
  IN  IF s = NoSlice THEN NoSlice
      ELSE [page |-> s.page, start |-> s.start + offset, len |-> s.len - offset]

\* The iterator in state (n, offset) run to its end (count(), a for loop):
\* the slices it yields, in order.
RECURSIVE SliceIter_collect(_, _, _, _)
SliceIter_collect(pm, hp, n, offset) ==
  IF iter_next(pm, hp, n, offset) = NoSlice THEN << >>
  ELSE << iter_next(pm, hp, n, offset) >> \o SliceIter_collect(pm, hp, n + 1, 0)

\* the payload offset of the first byte of payload page n
page_base(n) == n * PAGE_SIZE

\* A client of get_slices_mut(from) that fills every slice it is given:
\* payload offset k gets the byte Pattern(pat, k).
Pattern(pat, k) == 20 * pat + k

RECURSIVE fill_slices(_, _, _, _, _)
fill_slices(pm, hp, n, offset, pat) ==
  LET s == iter_next(pm, hp, n, offset)
  IN  IF s = NoSlice THEN pm
      ELSE IF s.len < 0 THEN [pm EXCEPT !.panic = TRUE]
      ELSE IF s.page \notin PagesOf(pm) THEN [pm EXCEPT !.ub = TRUE]
      ELSE fill_slices(
             [pm EXCEPT !.mem[s.page] = [i \in 0 .. (PAGE_SIZE - 1) |->
                  IF i >= s.start /\ i < s.start + s.len
                  THEN Pattern(pat, page_base(n) + offset + (i - s.start))
                  ELSE @[i]]],
             hp, n + 1, 0, pat)

\* RefPage::get_slices_mut(from) followed by the fill
write_from(pm, c, from, pat) ==
  LET hp == pm.cells[c].ptr
  IN  IF hp = NoPage THEN [pm EXCEPT !.panic = TRUE]
      ELSE IF ~pm.hdr[hp].live THEN [pm EXCEPT !.ub = TRUE]
      ELSE fill_slices(update_lru(pm, hp), hp, from \div PAGE_SIZE, from % PAGE_SIZE, pat)

\* What iterating get_slices(0) reads at payload offset k: the byte, or
\* WildPage when no slice holds that offset.
slices_byte(pm, hp, k) ==
  LET n == k \div PAGE_SIZE
      s == as_slice_mut(pm, hp, n)
      i == s.start + (k % PAGE_SIZE)
  IN  IF s = NoSlice \/ s.page \notin PagesOf(pm) \/ (k % PAGE_SIZE) >= s.len THEN WildPage
      ELSE pm.mem[s.page][i]

\* the bytes the slices of an allocation hold: embed_size or data_pages * PAGE_SIZE
capacity(h) == IF h.data_pages = 0 THEN embed_size ELSE h.data_pages * PAGE_SIZE

\* RefPage::get_slices(from), iterated to the end: the only effect is the LRU update;
\* a start beyond an embed slice panics.
read_from(pm, c, from) ==
  LET hp == pm.cells[c].ptr
  IN  IF hp = NoPage THEN [pm EXCEPT !.panic = TRUE]
      ELSE IF ~pm.hdr[hp].live THEN [pm EXCEPT !.ub = TRUE]
      ELSE LET s == iter_next(pm, hp, from \div PAGE_SIZE, from % PAGE_SIZE)
           IN  IF s /= NoSlice /\ s.len < 0 THEN [update_lru(pm, hp) EXCEPT !.panic = TRUE]
               ELSE update_lru(pm, hp)

\* ------------------------------------------------------------------------
\* reader.rs: the member cache and its readers.
\*
\* A world w is the page manager together with the member caches:
\*   pm     the PageManager
\*   file   per member, the size getattr reports
\*   stream per member, the number of bytes the reader File::open returns
\*          yields before its end, byte k being Content(m, k)
\*   cache  per member, the Cache: state, ref (Loading: the LoadingState;
\*          Loaded: the WeakRefPage's cell), size (Loaded: the cached size),
\*          known (Cache.size is Some)
\*   ls     the LoadingStates, named by the referencer cell of their page:
\*          rc (Rc count; 0: dropped or never made), open (reader is Some),
\*          dpos (bytes the decoder has produced), cached_size, member
\*   opens  per member, how often File::open was called
\* ------------------------------------------------------------------------
NMembers == 2
Members == 1 .. NMembers

Content(m, k) == 20 * m + k

EmptyCache == [state |-> "Empty", ref |-> 0, size |-> 0, known |-> FALSE]
NoLS == [rc |-> 0, open |-> FALSE, dpos |-> 0, cached_size |-> 0, member |-> 0]
NoReader == [kind |-> "none", size |-> 0, pos |-> 0, ref |-> 0, member |-> 0]

\* A plausible slip: the reader is never seen as closed.
is_eof_never(L) == FALSE

\* LoadingState::is_eof
is_eof(L) == ~L.open

\* The drop of one Rc<RefCell<LoadingState>> clone; the last one drops the
\* LoadingState: its decoder and its RefPage.
\* A plausible slip: the RefPage of a dropped LoadingState stays counted.
ls_drop_keeps_page(w, c) ==
  IF w.ls[c].rc = 1
  THEN [w EXCEPT !.ls[c].rc = 0, !.ls[c].open = FALSE]
  ELSE [w EXCEPT !.ls[c].rc = @ - 1]

ls_drop(w, c) ==
  IF w.ls[c].rc = 1
  THEN [w EXCEPT !.ls[c].rc = 0, !.ls[c].open = FALSE, !.pm = RefPage_drop(@, c)]
  ELSE [w EXCEPT !.ls[c].rc = @ - 1]

\* A plausible slip: a Loaded state is trusted without upgrading its weak reference.
loaded_is_live_trusting(pm, c) == TRUE

\* Cache::make_reader, Loaded arm: page.upgrade() is Some
loaded_is_live(pm, c) == can_upgrade(pm, c)

\* Cache::make_reader(): [w, ok, err, reader].  w.trail lists the assignments
\* to self.state the call has made, each as << state before, state after >>,
\* in order (every one is followed by the tail call self.make_reader()).
\* open_ok: whether File::open
\* succeeds should it be called.  err is "oom", "io", or "cap" when the run's
\* bound on allocations forbids the allocation.
RECURSIVE make_reader(_, _, _)

\* the Empty arm from the result a of page_manager.allocate(size) on
RECURSIVE make_reader_allocated(_, _, _, _, _)
make_reader_allocated(w0, m, open_ok, c, a) ==
  IF ~a.ok
  THEN [w |-> [w0 EXCEPT !.pm = a.pm], ok |-> FALSE, err |-> "oom", reader |-> NoReader]
  ELSE IF ~open_ok
  THEN [w |-> [w0 EXCEPT !.pm = WeakRefPage_drop(RefPage_drop(RefPage_new(a.pm, c), c), c),
                         !.opens[m] = @ + 1],
        ok |-> FALSE, err |-> "io", reader |-> NoReader]
  ELSE make_reader(
         [w0 EXCEPT !.pm = WeakRefPage_drop(RefPage_new(a.pm, c), c),
                    !.opens[m] = @ + 1,
                    !.ls[c] = [rc |-> 1, open |-> TRUE, dpos |-> 0,
                               cached_size |-> 0, member |-> m],
                    !.cache[m] = [state |-> "Loading", ref |-> c,
                                  size |-> 0, known |-> TRUE],
                    !.trail = Append(@, << "Empty", "Loading" >>)],
         m, open_ok)

\* A plausible slip: a reader made while the member is loading opens the member again.
make_reader_loading_reopen(w, m, open_ok) ==
  [w |-> [w EXCEPT !.ls[w.cache[m].ref].rc = @ + 1, !.opens[m] = @ + 1],
   ok |-> TRUE, err |-> "",
   reader |-> [kind |-> "loading", size |-> w.file[m], pos |-> 0,
               ref |-> w.cache[m].ref, member |-> m]]

\* A plausible slip: the Loading arm hands out a LoadingReader without looking
\* at is_eof.
make_reader_loading_unchecked(w, m, open_ok) ==
  [w |-> [w EXCEPT !.ls[w.cache[m].ref].rc = @ + 1],
   ok |-> TRUE, err |-> "",
   reader |-> [kind |-> "loading", size |-> w.file[m], pos |-> 0,
               ref |-> w.cache[m].ref, member |-> m]]

\* A plausible slip: a member whose decoder has reached EOF is emptied and
\* loaded again instead of being kept as Loaded.
make_reader_loading_restart(w, m, open_ok) ==
  LET st == w.cache[m]
  IN  IF ~is_eof(w.ls[st.ref])
      THEN [w |-> [w EXCEPT !.ls[st.ref].rc = @ + 1], ok |-> TRUE, err |-> "",
            reader |-> [kind |-> "loading", size |-> w.file[m], pos |-> 0,
                        ref |-> st.ref, member |-> m]]
      ELSE make_reader(
             ls_drop([w EXCEPT !.pm = RefPage_downgrade(@, st.ref),
                               !.cache[m] = [state |-> "Empty", ref |-> 0,
                                             size |-> 0, known |-> TRUE],
                               !.trail = Append(@, << "Loading", "Empty" >>)],
                     st.ref),
             m, open_ok)

\* the Loading arm
make_reader_loading(w, m, open_ok) ==
  LET st == w.cache[m]
  IN  IF ~is_eof(w.ls[st.ref])
      THEN [w |-> [w EXCEPT !.ls[st.ref].rc = @ + 1], ok |-> TRUE, err |-> "",
            reader |-> [kind |-> "loading", size |-> w.file[m], pos |-> 0,
                        ref |-> st.ref, member |-> m]]
      ELSE make_reader(
             ls_drop([w EXCEPT !.pm = RefPage_downgrade(@, st.ref),
                               !.cache[m] = [state |-> "Loaded", ref |-> st.ref,
                                             size |-> w.ls[st.ref].cached_size,
                                             known |-> TRUE],
                               !.trail = Append(@, << "Loading", "Loaded" >>)],
                     st.ref),
             m, open_ok)

make_reader(w, m, open_ok) ==
  LET st == w.cache[m]
  IN
  IF st.state = "Empty" THEN
    LET c == FreshCell(w.pm)
        w0 == [w EXCEPT !.cache[m].known = TRUE]
    IN  IF c \notin CellIds
        THEN [w |-> w, ok |-> FALSE, err |-> "cap", reader |-> NoReader]
        ELSE make_reader_allocated(w0, m, open_ok, c,
                                   PageManager_allocate(w.pm, w.file[m], c))
  ELSE IF st.state = "Loading" THEN make_reader_loading(w, m, open_ok)
  ELSE
    IF loaded_is_live(w.pm, st.ref)
    THEN [w |-> [w EXCEPT !.pm = RefPage_new(@, st.ref)], ok |-> TRUE, err |-> "",
          reader |-> [kind |-> "cache", size |-> st.size, pos |-> 0,
                      ref |-> st.ref, member |-> m]]
    ELSE make_reader(
           [w EXCEPT !.pm = WeakRefPage_drop(@, st.ref),
                     !.cache[m] = [state |-> "Empty", ref |-> 0, size |-> 0,
                                   known |-> TRUE],
                     !.trail = Append(@, << "Loaded", "Empty" >>)],
           m, open_ok)

\* The decoder of LoadingState L reading into a buffer of buflen bytes when it
\* returns at most chunk bytes per call: the number of bytes it returns.
decoder_read(w, L, buflen, chunk) ==
  Min(Min(buflen, chunk), w.stream[L.member] - L.dpos)

NoFail == -1

\* LoadingState::read_to_at_least, the inner loop over one slice s that is
\* filled from n on.  budget: the decoder calls that succeed before one fails
\* (NoFail: none fails).
RECURSIVE fill_slice(_, _, _, _, _, _)
\* A plausible slip: a decoder error forgets what was cached.
fill_slice_forgetful(w, c, s, n, chunk, budget) ==
  IF n >= s.len THEN [w |-> w, status |-> "full", budget |-> budget]
  ELSE IF budget = 0
  THEN [w |-> [w EXCEPT !.ls[c].cached_size = 0], status |-> "err", budget |-> budget]
  ELSE
  LET L == w.ls[c]
      nn == decoder_read(w, L, s.len - n, chunk)
  IN  IF nn = 0
      THEN [w |-> [w EXCEPT !.ls[c].open = FALSE], status |-> "eof", budget |-> budget]
      ELSE fill_slice(
             [w EXCEPT !.pm.mem[s.page] = [i \in 0 .. (PAGE_SIZE - 1) |->
                           IF i >= s.start + n /\ i < s.start + n + nn
                           THEN Content(L.member, L.dpos + (i - (s.start + n)))
                           ELSE @[i]],
                       !.ls[c].dpos = @ + nn,
                       !.ls[c].cached_size = @ + nn],
             c, s, n + nn, chunk, IF budget > 0 THEN budget - 1 ELSE budget)

fill_slice(w, c, s, n, chunk, budget) ==
  IF n >= s.len THEN [w |-> w, status |-> "full", budget |-> budget]
  ELSE IF budget = 0 THEN [w |-> w, status |-> "err", budget |-> budget]
  ELSE
  LET L == w.ls[c]
      nn == decoder_read(w, L, s.len - n, chunk)
  IN  IF nn = 0
      THEN [w |-> [w EXCEPT !.ls[c].open = FALSE], status |-> "eof", budget |-> budget]
      ELSE fill_slice(
             [w EXCEPT !.pm.mem[s.page] = [i \in 0 .. (PAGE_SIZE - 1) |->
                           IF i >= s.start + n /\ i < s.start + n + nn
                           THEN Content(L.member, L.dpos + (i - (s.start + n)))
                           ELSE @[i]],
                       !.ls[c].dpos = @ + nn,
                       !.ls[c].cached_size = @ + nn],
             c, s, n + nn, chunk, IF budget > 0 THEN budget - 1 ELSE budget)

\* LoadingState::read_to_at_least, the loop over the slices of get_slices_mut
RECURSIVE read_slices(_, _, _, _, _, _, _)

\* the outer loop from the result f of the inner loop over slice n on
RECURSIVE read_slices_filled(_, _, _, _, _)
read_slices_filled(f, c, n, read_to, chunk) ==
  IF f.status = "full"
  THEN read_slices(f.w, c, n + 1, 0, read_to, chunk, f.budget)
  ELSE [w |-> f.w, ok |-> f.status = "eof"]

\* the outer loop with iter.next() = s
RECURSIVE read_slices_next(_, _, _, _, _, _, _)
read_slices_next(w, c, n, s, read_to, chunk, budget) ==
  IF s = NoSlice THEN [w |-> [w EXCEPT !.ls[c].open = FALSE], ok |-> TRUE]
  ELSE IF s.len < 0 THEN [w |-> [w EXCEPT !.pm.panic = TRUE], ok |-> FALSE]
  ELSE IF s.page \notin PagesOf(w.pm) THEN [w |-> [w EXCEPT !.pm.ub = TRUE], ok |-> FALSE]
  ELSE read_slices_filled(fill_slice(w, c, s, 0, chunk, budget), c, n, read_to, chunk)

read_slices(w, c, n, offset, read_to, chunk, budget) ==
  IF w.ls[c].cached_size >= read_to THEN [w |-> w, ok |-> TRUE]
  ELSE read_slices_next(w, c, n, iter_next(w.pm, w.pm.cells[c].ptr, n, offset),
                        read_to, chunk, budget)

\* A plausible slip: the early return ignores how much is cached.
read_to_at_least_eager(w, c, read_to, chunk, budget) ==
  IF is_eof(w.ls[c]) THEN [w |-> w, ok |-> TRUE]
  ELSE [w |-> [w EXCEPT !.ls[c].open = FALSE], ok |-> TRUE]

\* A plausible slip: get_slices_mut starts at the reader's end of the range
\* instead of at cached_size.
read_to_at_least_from_read_to(w, c, read_to, chunk, budget) ==
  LET L == w.ls[c]
      hp == w.pm.cells[c].ptr
  IN  IF is_eof(L) \/ L.cached_size >= read_to THEN [w |-> w, ok |-> TRUE]
      ELSE IF hp = NoPage THEN [w |-> [w EXCEPT !.pm.panic = TRUE], ok |-> FALSE]
      ELSE read_slices([w EXCEPT !.pm = update_lru(@, hp)], c,
                       (read_to - 1) \div PAGE_SIZE, (read_to - 1) % PAGE_SIZE,
                       read_to, chunk, budget)

\* A plausible slip: the byte at read_to is taken to be asked for too.
read_to_at_least_inclusive(w, c, read_to, chunk, budget) ==
  LET L == w.ls[c]
      hp == w.pm.cells[c].ptr
  IN  IF is_eof(L) \/ L.cached_size > read_to THEN [w |-> w, ok |-> TRUE]
      ELSE IF hp = NoPage THEN [w |-> [w EXCEPT !.pm.panic = TRUE], ok |-> FALSE]
      ELSE read_slices([w EXCEPT !.pm = update_lru(@, hp)], c,
                       L.cached_size \div PAGE_SIZE, L.cached_size % PAGE_SIZE,
                       read_to + 1, chunk, budget)

\* LoadingState::read_to_at_least(read_to): [w, ok]; the cached size is in w
read_to_at_least(w, c, read_to, chunk, budget) ==
  LET L == w.ls[c]
      hp == w.pm.cells[c].ptr
  IN  IF is_eof(L) \/ L.cached_size >= read_to THEN [w |-> w, ok |-> TRUE]
      ELSE IF hp = NoPage THEN [w |-> [w EXCEPT !.pm.panic = TRUE], ok |-> FALSE]
      ELSE read_slices([w EXCEPT !.pm = update_lru(@, hp)], c,
                       L.cached_size \div PAGE_SIZE, L.cached_size % PAGE_SIZE,
                       read_to, chunk, budget)

\* The copy loop of both readers over get_slices(pos): the bytes copied.
RECURSIVE copy_slices(_, _, _, _, _, _)
copy_slices(pm, hp, n, offset, max, buf) ==
  LET s == iter_next(pm, hp, n, offset)
  IN  IF s = NoSlice \/ Len(buf) >= max THEN buf
      ELSE IF s.len < 0 \/ s.page \notin PagesOf(pm) THEN buf \o << WildPage >>
      ELSE LET l == Min(s.len, max - Len(buf))
           IN  copy_slices(pm, hp, n + 1, 0, max,
                           buf \o [j \in 1 .. l |-> pm.mem[s.page][s.start + j - 1]])

\* get_slices(pos) and the copy loop: [pm, data]
read_slices_at(pm, c, pos, max) ==
  LET hp == pm.cells[c].ptr
  IN  IF hp = NoPage THEN [pm |-> [pm EXCEPT !.panic = TRUE], data |-> << >>]
      ELSE LET s == iter_next(pm, hp, pos \div PAGE_SIZE, pos % PAGE_SIZE)
           IN  [pm |-> IF s /= NoSlice /\ s.len < 0
                       THEN [update_lru(pm, hp) EXCEPT !.panic = TRUE]
                       ELSE update_lru(pm, hp),
                data |-> copy_slices(pm, hp, pos \div PAGE_SIZE, pos % PAGE_SIZE, max, << >>)]

\* the end of read(): self.pos += read; Ok(read), g being the copy made
read_done(w, reader, g) ==
  [w |-> [w EXCEPT !.pm = g.pm], ok |-> TRUE, data |-> g.data,
   reader |-> [reader EXCEPT !.pos = @ + Len(g.data)]]

\* A plausible slip: the copy is not limited to what is left of the member.
CacheReader_read_nolimit(w, reader, len) ==
  read_done(w, reader, read_slices_at(w.pm, reader.ref, reader.pos, len))

\* Read for CacheReader with a buffer of len bytes: [w, ok, data, reader]
CacheReader_read(w, reader, len) ==
  IF reader.pos >= reader.size
  THEN [w |-> w, ok |-> TRUE, data |-> << >>, reader |-> reader]
  ELSE read_done(w, reader,
                 read_slices_at(w.pm, reader.ref, reader.pos,
                                Min(reader.size - reader.pos, len)))

\* LoadingReader::read from the result r of read_to_at_least on
LoadingReader_read_cached(r, reader, len) ==
  IF ~r.ok THEN [w |-> r.w, ok |-> FALSE, data |-> << >>, reader |-> reader]
  ELSE IF reader.pos >= r.w.ls[reader.ref].cached_size
  THEN [w |-> r.w, ok |-> TRUE, data |-> << >>, reader |-> reader]
  ELSE read_done(r.w, reader,
                 read_slices_at(r.w.pm, reader.ref, reader.pos,
                                Min(r.w.ls[reader.ref].cached_size - reader.pos, len)))

\* Read for LoadingReader with a buffer of len bytes: [w, ok, data, reader]
LoadingReader_read(w, reader, len, chunk, budget) ==
  LoadingReader_read_cached(
    read_to_at_least(w, reader.ref, reader.pos + len, chunk, budget), reader, len)

\* read() on either reader
reader_read(w, reader, len, chunk, budget) ==
  IF reader.kind = "cache" THEN CacheReader_read(w, reader, len)
  ELSE LoadingReader_read(w, reader, len, chunk, budget)

\* the drop of a reader
reader_drop(w, reader) ==
  IF reader.kind = "cache" THEN [w EXCEPT !.pm = RefPage_drop(@, reader.ref)]
  ELSE ls_drop(w, reader.ref)

\* impl_seek!: seek(pos) on either reader: [reader, ok, overflow].  whence is
\* "Start", "End" or "Current".  overflow: the sum wrapped around, which a
\* build with overflow checks turns into a panic.
seek(reader, whence, i) ==
  IF whence = "Start"
  THEN [reader |-> [reader EXCEPT !.pos = i], ok |-> TRUE, overflow |-> FALSE]
  ELSE LET from == IF whence = "End" THEN reader.size ELSE reader.pos
       IN  IF i < 0 /\ from < as_usize(-i)
           THEN [reader |-> reader, ok |-> FALSE, overflow |-> FALSE]
           ELSE [reader |-> [reader EXCEPT !.pos = (from + as_usize(i)) % USIZE_MOD],
                 ok |-> TRUE,
                 overflow |-> from + as_usize(i) >= USIZE_MOD]

\* ------------------------------------------------------------------------
\* fs.rs: the entries, the handles and the FUSE operations of ShowFS.
\*
\* An entry is [path, kind]: the path of the physical file or directory behind
\* it, a sequence of names starting with the origin, and "File" or "Dir".
\* ------------------------------------------------------------------------
\* the inode numbers and the handle ids a run hands out at most
MaxInode == 5
MaxFh == 3
InodeIds == 1 .. MaxInode
FhIds == 0 .. (MaxFh - 1)

\* None of the Options
NoInode == -1
NoEntry == [path |-> << >>, kind |-> "None"]
NoDirHandle == [path |-> << >>, i |-> 0]

\* the tree below the origin: a file, a directory and a file in it with the
\* same name as the first; "x" does not exist
Origin == << "o" >>
Names == {"a", "d", "x"}
Kind(path) ==
  IF path = Origin THEN "Dir"
  ELSE IF path = << "o", "a" >> THEN "File"
  ELSE IF path = << "o", "d" >> THEN "Dir"
  ELSE IF path = << "o", "d", "a" >> THEN "File"
  ELSE "None"
\* the order read_dir yields the names of a directory in
ChildNames(path) ==
  IF path = Origin THEN << "a", "d" >>
  ELSE IF path = << "o", "d" >> THEN << "a" >>
  ELSE << >>

RootEntry == [path |-> Origin, kind |-> "Dir"]
Entries ==
  {[path |-> q, kind |-> Kind(q)] :
     q \in {Origin, << "o", "a" >>, << "o", "d" >>, << "o", "d", "a" >>}}

\* Entry::name: the file_name() of the path
name(ent) == ent.path[Len(ent.path)]

\* physical::Dir::lookup: the entry, NoEntry for Err
Dir_lookup(dir, nm) ==
  IF Kind(dir.path \o << nm >>) = "None" THEN NoEntry
  ELSE [path |-> dir.path \o << nm >>, kind |-> Kind(dir.path \o << nm >>)]

\* physical::Dir::open: what the iterator yields, in order
Dir_open(dir) ==
  [i \in 1 .. Len(ChildNames(dir.path)) |->
     [path |-> dir.path \o << ChildNames(dir.path)[i] >>,
      kind |-> Kind(dir.path \o << ChildNames(dir.path)[i] >>)]]

\* the keys of path_to_inode
PathKeys == (0 .. MaxInode) \X (Names \cup {"o"})

EntryHolder_new ==
  [inode |-> 0,
   inode_to_entry |-> [i \in InodeIds |-> NoEntry],
   path_to_inode |-> [k \in PathKeys |-> NoInode]]

\* EntryHolder::get_by_inode
get_by_inode(e, ino) ==
  IF ino \in InodeIds THEN e.inode_to_entry[ino] ELSE NoEntry

\* EntryHolder::get_by_path: the inode, NoInode for None
get_by_path(e, parent, nm) ==
  IF << parent, nm >> \notin PathKeys THEN NoInode
  ELSE IF e.path_to_inode[<< parent, nm >>] = NoInode THEN NoInode
  ELSE IF get_by_inode(e, e.path_to_inode[<< parent, nm >>]) = NoEntry THEN NoInode
  ELSE e.path_to_inode[<< parent, nm >>]

\* A plausible slip: the counter is not advanced.
reserve_inode_stuck(e) == [e |-> e, ir |-> e.inode]

\* EntryHolder::reserve_inode: [e, ir]
reserve_inode(e) == [e |-> [e EXCEPT !.inode = @ + 1], ir |-> e.inode]

\* EntryHolder::register_with
register_with(e, parent, ent, ir) ==
  [e EXCEPT !.path_to_inode[<< parent, name(ent) >>] = ir,
            !.inode_to_entry[ir] = ent]

\* EntryHolder::register_root
register_root(e, root) == register_with([e EXCEPT !.inode = 2], 0, root, 1)

HandlerHolder_new ==
  [fh |-> 0,
   file_handlers |-> [h \in FhIds |-> NoInode],
   dir_handlers |-> [h \in FhIds |-> NoDirHandle]]

\* A plausible slip: the lowest id not in use is handed out.
register_file_reusing(hh, ino) ==
  LET fh == CHOOSE h \in FhIds :
              /\ hh.file_handlers[h] = NoInode /\ hh.dir_handlers[h] = NoDirHandle
              /\ \A g \in FhIds : g < h =>
                    hh.file_handlers[g] /= NoInode \/ hh.dir_handlers[g] /= NoDirHandle
  IN  [hh |-> [hh EXCEPT !.fh = @ + 1, !.file_handlers[fh] = ino], fh |-> fh]

\* HandlerHolder::register_file: [hh, fh].  The reader registered is named by
\* the inode of the file it reads.
register_file(hh, ino) ==
  [hh |-> [hh EXCEPT !.fh = @ + 1, !.file_handlers[hh.fh] = ino], fh |-> hh.fh]

\* HandlerHolder::register_dir: [hh, fh].  The iterator registered is the
\* directory's path and how many of its entries next() has yielded.
register_dir(hh, dir) ==
  [hh |-> [hh EXCEPT !.fh = @ + 1, !.dir_handlers[hh.fh] = [path |-> dir.path, i |-> 0]],
   fh |-> hh.fh]

\* HandlerHolder::get_file / get_file_mut: is Some
get_file(hh, fh) == fh \in FhIds /\ hh.file_handlers[fh] /= NoInode

\* HandlerHolder::get_dir_mut: is Some
get_dir_mut(hh, fh) == fh \in FhIds /\ hh.dir_handlers[fh] /= NoDirHandle

\* HandlerHolder::release_file
release_file(hh, fh) ==
  IF fh \in FhIds THEN [hh EXCEPT !.file_handlers[fh] = NoInode] ELSE hh

\* HandlerHolder::release_dir: the table after it (it answers get_dir_mut before)
release_dir(hh, fh) ==
  IF fh \in FhIds THEN [hh EXCEPT !.dir_handlers[fh] = NoDirHandle] ELSE hh

\* ShowFS::new and mount(): the root is registered; buf is the length of
\* self.buf
ShowFS_new ==
  [entries |-> register_root(EntryHolder_new, RootEntry),
   handlers |-> HandlerHolder_new,
   buf |-> 0]

\* libc: the access modes of open(2) and one flag beside them
O_RDONLY == 0
O_WRONLY == 1
O_RDWR == 2
O_ACCMODE == 3
O_NONBLOCK == 2048

\* the & of u32
RECURSIVE bit_and(_, _)
bit_and(a, b) ==
  IF a = 0 \/ b = 0 THEN 0
  ELSE (a % 2) * (b % 2) + 2 * bit_and(a \div 2, b \div 2)

\* the replies
reply_error(errno) == [kind |-> "error", err |-> errno, ino |-> NoInode, fh |-> -1, added |-> << >>]
reply_entry(ino) == [kind |-> "entry", err |-> "", ino |-> ino, fh |-> -1, added |-> << >>]
reply_opened(fh) == [kind |-> "opened", err |-> "", ino |-> NoInode, fh |-> fh, added |-> << >>]
reply_ok(added) == [kind |-> "ok", err |-> "", ino |-> NoInode, fh |-> -1, added |-> added]
reply_data == [kind |-> "data", err |-> "", ino |-> NoInode, fh |-> -1, added |-> << >>]

\* lookup, the entry found below: it is viewed, given the reserved inode and
\* registered, whether or not its getattr succeeds
lookup_found(fs, parent, ent, r, attr_ok) ==
  [fs |-> [fs EXCEPT !.entries = register_with(r.e, parent, ent, r.ir)],
   reply |-> IF attr_ok THEN reply_entry(r.ir) ELSE reply_error("EIO")]

\* ShowFS::lookup: [fs, reply].  attr_ok: whether the entry's getattr succeeds.
lookup(fs, parent, nm, attr_ok) ==
  IF get_by_path(fs.entries, parent, nm) /= NoInode
  THEN [fs |-> fs,
        reply |-> IF attr_ok THEN reply_entry(get_by_path(fs.entries, parent, nm))
                  ELSE reply_error("EIO")]
  ELSE IF get_by_inode(fs.entries, parent).kind /= "Dir"
  THEN [fs |-> fs, reply |-> reply_error("ENOENT")]
  ELSE IF Dir_lookup(get_by_inode(fs.entries, parent), nm) = NoEntry
  THEN [fs |-> fs, reply |-> reply_error("ENOENT")]
  ELSE lookup_found(fs, parent, Dir_lookup(get_by_inode(fs.entries, parent), nm),
                    reserve_inode(fs.entries), attr_ok)

\* ShowFS::open, the file found: [fs, reply]
open_file(fs, ino, r, open_ok) ==
  IF open_ok
  THEN [fs |-> [fs EXCEPT !.handlers = r.hh], reply |-> reply_opened(r.fh)]
  ELSE [fs |-> fs, reply |-> reply_error("EIO")]

\* ShowFS::open: [fs, reply].  open_ok: whether File::open succeeds.
open(fs, ino, flags, open_ok) ==
  IF bit_and(flags, O_RDONLY) /= 0
  THEN [fs |-> fs, reply |-> reply_error("EINVAL")]
  ELSE IF get_by_inode(fs.entries, ino).kind = "File"
  THEN open_file(fs, ino, register_file(fs.handlers, ino), open_ok)
  ELSE IF get_by_inode(fs.entries, ino).kind = "Dir"
  THEN [fs |-> fs, reply |-> reply_error("EINVAL")]
  ELSE [fs |-> fs, reply |-> reply_error("ENOENT")]

\* ShowFS::release: [fs, reply]
release(fs, fh) ==
  IF ~get_file(fs.handlers, fh)
  THEN [fs |-> fs, reply |-> reply_error("EBADF")]
  ELSE [fs |-> [fs EXCEPT !.handlers = release_file(@, fh)], reply |-> reply_ok(<< >>)]

\* ShowFS::read: [fs, reply].  outcome: "seek" when the reader's seek fails,
\* "read" when one of its reads fails, "data" otherwise; self.buf is resized
\* to the size asked for once the seek is done.
read(fs, fh, size, outcome) ==
  IF get_file(fs.handlers, fh)
  THEN IF outcome = "seek"
       THEN [fs |-> fs, reply |-> reply_error("EIO")]
       ELSE [fs |-> [fs EXCEPT !.buf = size],
             reply |-> IF outcome = "data" THEN reply_data ELSE reply_error("EIO")]
  ELSE [fs |-> fs, reply |-> reply_error("EBADF")]

\* ShowFS::opendir: [fs, reply].  open_ok: whether Dir::open succeeds.
opendir(fs, ino, open_ok) ==
  IF get_by_inode(fs.entries, ino).kind = "Dir"
  THEN IF open_ok
       THEN [fs |-> [fs EXCEPT !.handlers =
                        register_dir(@, get_by_inode(fs.entries, ino)).hh],
             reply |-> reply_opened(fs.handlers.fh)]
       ELSE [fs |-> fs, reply |-> reply_error("EIO")]
  ELSE IF get_by_inode(fs.entries, ino).kind = "File"
  THEN [fs |-> fs, reply |-> reply_error("EBADF")]
  ELSE [fs |-> fs, reply |-> reply_error("ENOENT")]

\* ShowFS::releasedir: [fs, reply]
releasedir(fs, fh) ==
  IF get_dir_mut(fs.handlers, fh)
  THEN [fs |-> [fs EXCEPT !.handlers = release_dir(@, fh)], reply |-> reply_ok(<< >>)]
  ELSE [fs |-> fs, reply |-> reply_error("EBADF")]

\* ShowFS::readdir, the loop.  room: the entries the reply buffer takes;
\* budget: the file_type calls that succeed before one fails (NoFail: none
\* fails); added: what reply.add has taken.
RECURSIVE readdir_loop(_, _, _, _, _, _)

\* the loop body with the entry ent peeked, its inode found (hit) or reserved (r)
RECURSIVE readdir_peeked(_, _, _, _, _, _, _, _, _)
readdir_peeked(fs, ino, fh, room, budget, added, ent, hit, r) ==
  IF budget = 0
  THEN [fs |-> [fs EXCEPT !.entries = IF hit = NoInode THEN r.e ELSE @],
        reply |-> reply_error("EIO")]
  ELSE IF Len(added) >= room
  THEN [fs |-> [fs EXCEPT !.entries = IF hit = NoInode THEN r.e ELSE @],
        reply |-> reply_ok(added)]
  ELSE readdir_loop(
         [fs EXCEPT !.entries = IF hit = NoInode
                                THEN register_with(r.e, ino, ent, r.ir) ELSE @,
                    !.handlers.dir_handlers[fh].i = @ + 1],
         ino, fh, room, IF budget > 0 THEN budget - 1 ELSE budget,
         added \o << [ino |-> IF hit = NoInode THEN r.ir ELSE hit, name |-> name(ent)] >>)

readdir_loop(fs, ino, fh, room, budget, added) ==
  IF fs.handlers.dir_handlers[fh].i >= Len(Dir_open(fs.handlers.dir_handlers[fh]))
  THEN [fs |-> fs, reply |-> reply_ok(added)]
  ELSE readdir_peeked(fs, ino, fh, room, budget, added,
         Dir_open(fs.handlers.dir_handlers[fh])[fs.handlers.dir_handlers[fh].i + 1],
         get_by_path(fs.entries, ino,
           name(Dir_open(fs.handlers.dir_handlers[fh])[fs.handlers.dir_handlers[fh].i + 1])),
         reserve_inode(fs.entries))

\* ShowFS::readdir: [fs, reply]
readdir(fs, ino, fh, room, budget) ==
  IF ~get_dir_mut(fs.handlers, fh)
  THEN [fs |-> fs, reply |-> reply_error("ENOENT")]
  ELSE readdir_loop(fs, ino, fh, room, budget, << >>)

\* ------------------------------------------------------------------------
\* The intrusive list (src/src/archive/link.rs).  Node 0 is the boxed Link of
\* the LinkHead, nodes 1 .. NElems are the Links embedded in elements.  A list
\* value has prev and next, each a function from nodes to nodes or NullLink,
\* and panic: an unwrap() of a null pointer was hit.
\* ------------------------------------------------------------------------
NElems == 5
Elems == 1 .. NElems
NullLink == -1
HeadLink == 0

\* LinkHead::new, beside elements holding Link::default()
LinkHead_new ==
  [prev |-> [n \in 0 .. NElems |-> IF n = HeadLink THEN HeadLink ELSE NullLink],
   next |-> [n \in 0 .. NElems |-> IF n = HeadLink THEN HeadLink ELSE NullLink],
   panic |-> FALSE]

\* LinkHead::is_empty
is_empty(l) == l.next[HeadLink] = HeadLink

\* LinkHead::front_mut: the element, NullLink for None
front_mut(l) == IF is_empty(l) THEN NullLink ELSE l.next[HeadLink]

\* A plausible slip: the old front is not pointed back at the new element.
push_front_one_way(l, element) ==
  LET next == l.next[HeadLink]
      l1 == [l EXCEPT !.next[HeadLink] = element]
      l2 == [l1 EXCEPT !.next[element] = next]
  IN  [l2 EXCEPT !.prev[element] = HeadLink]

\* LinkHead::push_front, assignment by assignment
push_front(l, element) ==
  LET next == l.next[HeadLink]
      l1 == [l EXCEPT !.next[HeadLink] = element]
      l2 == [l1 EXCEPT !.next[element] = next]
      l3 == IF next = NullLink THEN [l2 EXCEPT !.panic = TRUE]
            ELSE [l2 EXCEPT !.prev[next] = element]
  IN  IF l3.panic THEN l3 ELSE [l3 EXCEPT !.prev[element] = HeadLink]

\* A plausible slip: the neighbours are joined, the element keeps its pointers.
unlink_keeps_pointers(l, element) ==
  LET prev == l.prev[element]
  IN  IF prev = NullLink \/ l.next[element] = NullLink THEN [l EXCEPT !.panic = TRUE]
      ELSE LET l1 == [l EXCEPT !.next[prev] = l.next[element]]
           IN  [l1 EXCEPT !.prev[l1.next[element]] = prev]

\* Link::unlink, assignment by assignment
unlink(l, element) ==
  LET prev == l.prev[element]
  IN  IF prev = NullLink THEN [l EXCEPT !.panic = TRUE]
      ELSE LET l1 == [l EXCEPT !.next[prev] = l.next[element]]
           IN  IF l1.next[element] = NullLink THEN [l1 EXCEPT !.panic = TRUE]
               ELSE LET l2 == [l1 EXCEPT !.prev[l1.next[element]] = prev]
                    IN  [l2 EXCEPT !.prev[element] = NullLink,
                                   !.next[element] = NullLink]

\* IterReverseMut::next from the cursor `link`, collected to the end: the
\* elements yielded, in order.  fuel bounds the walk of a list that does not
\* come back to its head; such a walk ends with NullLink.
RECURSIVE IterReverseMut_collect(_, _, _)
IterReverseMut_collect(l, link, fuel) ==
  IF link = HeadLink THEN << >>
  ELSE IF link = NullLink \/ fuel = 0 THEN << NullLink >>
  ELSE << link >> \o IterReverseMut_collect(l, l.prev[link], fuel - 1)

\* LinkHead::iter_reverse_mut().collect()
iter_reverse_mut(l) == IterReverseMut_collect(l, l.prev[HeadLink], NElems + 1)

\* ------------------------------------------------------------------------
\* The directory views of an archive (src/src/archive/mod.rs).
\*
\* A path is the sequence of its components, "" the empty sequence.  An
\* archive is the sequence of the entries next_entry yields, each [path, kind]
\* with kind "Directory" or "RegularFile".  A listing record (DirEntry) is
\* [path, kind, own]: own tells the attributes of the entry itself from the
\* attributes of the archive file that a synthetic directory is given.
\* An Option is [some, v].  A Dir is [path, attr, dents], attr and dents the
\* Options of its RefCells; the Rc of a listing is the listing itself, for a
\* listing never changes once made.
\* ------------------------------------------------------------------------
NoListing == [some |-> FALSE, v |-> << >>]
SomeListing(dents) == [some |-> TRUE, v |-> dents]

\* Path::parent
path_parent(path) ==
  IF path = << >> THEN [some |-> FALSE, v |-> << >>]
  ELSE [some |-> TRUE, v |-> SubSeq(path, 1, Len(path) - 1)]

\* Path::join with a name of one component
path_join(path, nm) == Append(path, nm)

\* Dir::new
Dir_new == [path |-> << >>, attr |-> FALSE, dents |-> NoListing]

\* Dir::from_parts
from_parts(path, dents) == [path |-> path, attr |-> TRUE, dents |-> SomeListing(dents)]

\* update_cache, the while loop over the parents of an entry: [dents, dirs]
RECURSIVE push_parents(_, _, _)
push_parents(parent, dents, dirs) ==
  IF ~parent.some THEN [dents |-> dents, dirs |-> dirs]
  ELSE LET path == parent.v
       IN  IF path \notin dirs
           THEN push_parents(path_parent(path),
                             Append(dents, [path |-> path, kind |-> "Directory",
                                            own |-> FALSE]),
                             dirs \cup {path})
           ELSE push_parents(path_parent(path), dents, dirs)

\* A plausible slip: a directory the archive stores is listed whether or not
\* a leaf path has implied it already.
walk_entry_unchecked(ent, acc) ==
  LET p == push_parents(path_parent(ent.path), acc.dents, acc.dirs)
  IN  [dents |-> Append(p.dents, [path |-> ent.path, kind |-> ent.kind, own |-> TRUE]),
       dirs |-> p.dirs \cup (IF ent.kind = "Directory" THEN {ent.path} ELSE {})]

\* update_cache, the body of the loop for one entry: [dents, dirs]
walk_entry(ent, acc) ==
  LET p == push_parents(path_parent(ent.path), acc.dents, acc.dirs)
  IN  IF ent.kind /= "Directory" \/ ent.path \notin p.dirs
      THEN [dents |-> Append(p.dents, [path |-> ent.path, kind |-> ent.kind, own |-> TRUE]),
            dirs |-> p.dirs \cup (IF ent.kind = "Directory" THEN {ent.path} ELSE {})]
      ELSE p

\* update_cache, the loop over next_entry until None
RECURSIVE walk(_, _)
walk(archive, acc) ==
  IF archive = << >> THEN acc.dents
  ELSE walk(Tail(archive), walk_entry(Head(archive), acc))

\* A plausible slip: the listing is made again by every call.
update_cache_always(d, dir, outcome) ==
  IF ~dir.attr /\ outcome = "getattr"
  THEN [d |-> d, dir |-> dir, ok |-> FALSE]
  ELSE IF outcome = "open"
  THEN [d |-> [d EXCEPT !.tries = @ + 1], dir |-> [dir EXCEPT !.attr = TRUE], ok |-> FALSE]
  ELSE IF outcome = "walk"
  THEN [d |-> [d EXCEPT !.opens = @ + 1, !.tries = @ + 1],
        dir |-> [dir EXCEPT !.attr = TRUE], ok |-> FALSE]
  ELSE [d |-> [d EXCEPT !.opens = @ + 1, !.walks = @ + 1],
        dir |-> [dir EXCEPT !.attr = TRUE,
                            !.dents = SomeListing(walk(d.archive,
                                                       [dents |-> << >>, dirs |-> {}]))],
        ok |-> TRUE]

\* Dir::update_cache on the view dir of the archive of d: [d, dir, ok].
\* outcome: what fails should the listing have to be made, "getattr"
\* (archive.getattr()), "open" (archive.open()), "walk" (next_entry yields an
\* error), or "ok".  d.opens counts the archive.open() calls that succeeded,
\* d.walks the walks that reached the end, d.tries the calls that failed.
update_cache(d, dir, outcome) ==
  IF dir.dents.some THEN [d |-> d, dir |-> dir, ok |-> TRUE]
  ELSE IF ~dir.attr /\ outcome = "getattr"
  THEN [d |-> [d EXCEPT !.tries = @ + 1], dir |-> dir, ok |-> FALSE]
  ELSE IF outcome = "open"
  THEN [d |-> [d EXCEPT !.tries = @ + 1], dir |-> [dir EXCEPT !.attr = TRUE], ok |-> FALSE]
  ELSE IF outcome = "walk"
  THEN [d |-> [d EXCEPT !.opens = @ + 1, !.tries = @ + 1],
        dir |-> [dir EXCEPT !.attr = TRUE], ok |-> FALSE]
  ELSE [d |-> [d EXCEPT !.opens = @ + 1, !.walks = @ + 1],
        dir |-> [dir EXCEPT !.attr = TRUE,
                            !.dents = SomeListing(walk(d.archive,
                                                       [dents |-> << >>, dirs |-> {}]))],
        ok |-> TRUE]

\* the fs::Entry made of a listing record e by a view or handler that shares
\* the listing dents: a Dir view or a CacheFile
entry_of(e, dents) ==
  IF e.kind = "Directory"
  THEN [kind |-> "Dir", path |-> e.path, dir |-> from_parts(e.path, dents)]
  ELSE [kind |-> "File", path |-> e.path, dir |-> Dir_new]

NoArchiveEntry == [kind |-> "None", path |-> << >>, dir |-> Dir_new]

\* Dir::lookup after update_cache, the scan from record i on
RECURSIVE lookup_scan(_, _, _)
lookup_scan(dents, lookup_path, i) ==
  IF i > Len(dents) THEN [ok |-> FALSE, err |-> "ENOENT", entry |-> NoArchiveEntry]
  ELSE IF dents[i].path = lookup_path
  THEN [ok |-> TRUE, err |-> "", entry |-> entry_of(dents[i], dents)]
  ELSE lookup_scan(dents, lookup_path, i + 1)

\* Dir::lookup: [d, dir, ok, err, entry]
ArchiveDir_lookup(d, dir, nm, outcome) ==
  LET u == update_cache(d, dir, outcome)
  IN  IF ~u.ok
      THEN [d |-> u.d, dir |-> u.dir, ok |-> FALSE, err |-> "EIO", entry |-> NoArchiveEntry]
      ELSE LET r == lookup_scan(u.dir.dents.v, path_join(dir.path, nm), 1)
           IN  [d |-> u.d, dir |-> u.dir, ok |-> r.ok, err |-> r.err, entry |-> r.entry]

NoHandler == [some |-> FALSE, path |-> << >>, dents |-> << >>, i |-> 0]

\* no archive file has been made a directory view
NoArchiveDir ==
  [viewed |-> FALSE, archive |-> << >>, top |-> Dir_new, subs |-> {},
   handler |-> NoHandler, got |-> << >>, opens |-> 0, walks |-> 0, tries |-> 0]

\* Dir::open with DirHandler::open: [d, dir, ok, handler]
ArchiveDir_open(d, dir, outcome) ==
  LET u == update_cache(d, dir, outcome)
  IN  IF ~u.ok THEN [d |-> u.d, dir |-> u.dir, ok |-> FALSE, handler |-> NoHandler]
      ELSE [d |-> u.d, dir |-> u.dir, ok |-> TRUE,
            handler |-> [some |-> TRUE, path |-> dir.path, dents |-> u.dir.dents.v,
                         i |-> 0]]

\* DirHandler::next: [handler, some, entry]; i counts from 0 as in the source
RECURSIVE DirHandler_next(_)
DirHandler_next(h) ==
  IF ~(h.i < Len(h.dents)) THEN [handler |-> h, some |-> FALSE, entry |-> NoArchiveEntry]
  ELSE LET e == h.dents[h.i + 1]
           h1 == [h EXCEPT !.i = @ + 1]
       IN  IF path_parent(e.path).some /\ path_parent(e.path).v = h.path
           THEN [handler |-> h1, some |-> TRUE, entry |-> entry_of(e, h.dents)]
           ELSE DirHandler_next(h1)

\* the entries a handler yields until next() returns None
RECURSIVE DirHandler_collect(_)
DirHandler_collect(h) ==
  LET r == DirHandler_next(h)
  IN  IF ~r.some THEN << >> ELSE << r.entry >> \o DirHandler_collect(r.handler)

\* ------------------------------------------------------------------------
\* The reader of one archive member (src/src/wrapper.rs).
\*
\* A member is [size, blocks]: blocks is what archive_read_data_block hands
\* out call by call before it returns ARCHIVE_EOF, each block [offset, data]
\* with data the sequence of its bytes.  A Reader is [buf, read_pos, buf_size,
\* offset, eof] with buf the data of the block last handed out (<< >> for a
\* null pointer), and next, the block the decoder of its Archive hands out
\* next.  bad: the subtraction buf_size - begin went below zero.
\* ------------------------------------------------------------------------
\* Reader::new
Reader_new ==
  [buf |-> << >>, read_pos |-> 0, buf_size |-> 0, offset |-> 0, eof |-> FALSE,
   next |-> 1, bad |-> FALSE]

\* ffi::archive_read_data_block on the reader's archive: the reader with buf,
\* buf_size and offset as the decoder leaves them, and the status.  At the end
\* of the member the decoder sets a null buffer of size 0 at the offset of the
\* member's end.
archive_read_data_block(r, member) ==
  IF r.next > Len(member.blocks)
  THEN [r |-> [r EXCEPT !.buf = << >>, !.buf_size = 0, !.offset = member.size],
        status |-> "ARCHIVE_EOF"]
  ELSE [r |-> [r EXCEPT !.buf = member.blocks[r.next].data,
                        !.buf_size = Len(member.blocks[r.next].data),
                        !.offset = member.blocks[r.next].offset,
                        !.next = @ + 1],
        status |-> "ARCHIVE_OK"]

\* Reader::read_data_block: [r, ok].  fatal: the next call of the decoder,
\* should there be one, returns ARCHIVE_FATAL.
RECURSIVE read_data_block(_, _, _)
read_data_block(r, member, fatal) ==
  IF r.eof THEN [r |-> r, ok |-> TRUE]
  ELSE IF ~(r.offset + r.buf_size <= r.read_pos) THEN [r |-> r, ok |-> TRUE]
  ELSE IF fatal THEN [r |-> r, ok |-> FALSE]
  ELSE LET b == archive_read_data_block(r, member)
       IN  IF b.status = "ARCHIVE_EOF" THEN [r |-> [b.r EXCEPT !.eof = TRUE], ok |-> TRUE]
           ELSE read_data_block(b.r, member, fatal)

\* A plausible slip: the gap is skipped instead of being filled with zeros.
fill_gap_skips(r, len) ==
  IF r.read_pos < r.offset
  THEN [r |-> [r EXCEPT !.read_pos = r.offset], n |-> 0, data |-> << >>]
  ELSE [r |-> r, n |-> 0, data |-> << >>]

\* Reader::fill_gap on a buffer of len bytes: [r, n, data], data the bytes
\* written to the front of the buffer
fill_gap(r, len) ==
  IF r.read_pos < r.offset
  THEN LET l == Min(len, r.offset - r.read_pos)
       IN  [r |-> [r EXCEPT !.read_pos = @ + l], n |-> l, data |-> [i \in 1 .. l |-> 0]]
  ELSE [r |-> r, n |-> 0, data |-> << >>]

\* Read for Reader, read(buf) with buf.len() = len: [r, ok, n, data]
Reader_read(r, member, len, fatal) ==
  LET b == read_data_block(r, member, fatal)
  IN  IF ~b.ok THEN [r |-> b.r, ok |-> FALSE, n |-> 0, data |-> << >>]
      ELSE LET g == fill_gap(b.r, len)
           IN  IF g.n > 0 THEN [r |-> g.r, ok |-> TRUE, n |-> g.n, data |-> g.data]
               ELSE LET begin == g.r.read_pos - g.r.offset
                    IN  IF begin < 0 \/ g.r.buf_size - begin < 0
                        THEN [r |-> [g.r EXCEPT !.bad = TRUE], ok |-> TRUE, n |-> 0,
                              data |-> << >>]
                        ELSE LET l == Min(len, g.r.buf_size - begin)
                             IN  [r |-> [g.r EXCEPT !.read_pos = @ + l], ok |-> TRUE,
                                  n |-> l,
                                  data |-> SubSeq(g.r.buf, begin + 1, begin + l)]

\* no member is open
NoMember == [size |-> 0, blocks |-> << >>]
NoWrapperReader ==
  [opened |-> FALSE, member |-> NoMember, r |-> Reader_new, out |-> << >>,
   done |-> FALSE, failed |-> FALSE]

\* ------------------------------------------------------------------------
\* State
\* ------------------------------------------------------------------------
VARIABLES
  pm,       \* the PageManager
  weak,     \* per referencer cell, the WeakRefPage values a direct client holds
  strong,   \* per referencer cell, the RefPage values a direct client holds
  wrote,    \* per referencer cell, what that client wrote at each payload offset (-1: nothing)
  file,     \* per member, its size
  stream,   \* per member, the length of its decoded stream
  cache,    \* per member, its Cache
  ls,       \* the LoadingStates
  rd,       \* the readers make_reader has handed out and that are not dropped
  opens,    \* per member, the File::open calls
  showfs,   \* the ShowFS: its entries and its handlers
  kernel,   \* what the kernel was replied: the inodes reported, the handles given and released
  list,     \* a LinkHead with its elements (l), what a sequence would hold (linked)
  adir,     \* an archive file seen as a directory: its top-level Dir, the Dirs made
            \* from it, a DirHandler, and counts of what update_cache did
  wr        \* the wrapper Reader of an archive member, the member, and the bytes
            \* its reads have returned so far

vars == << pm, weak, strong, wrote, file, stream, cache, ls, rd, opens, showfs, kernel,
           list, adir, wr >>
pm_client == << weak, strong, wrote >>
libs == << list, adir, wr >>
fs_side == << showfs, kernel, libs >>
cache_side == << file, stream, cache, ls, rd, opens, fs_side >>

World ==
  [pm |-> pm, file |-> file, stream |-> stream, cache |-> cache, ls |-> ls,
   opens |-> opens, trail |-> << >>]

\* the readers a run holds at a time
MaxReaders == 2
Readers == 1 .. MaxReaders

Alive == ~pm.panic /\ ~pm.ub

\* ------------------------------------------------------------------------
\* A direct client of the page manager (as the tests of page.rs are)
\* ------------------------------------------------------------------------
\* the arena of this client, in pages
PMPages == 8
\* the WeakRefPage and RefPage values it holds per allocation
MaxWeak == 1
MaxStrong == 2
\* the byte counts it allocates: both ends of each page count that fits the arena
AllocBytes == {2, 3, 8, 9, 16, 17}
\* where its get_slices_mut and get_slices start
WriteFroms == {0, 5}
ReadFroms == {0, 3, 5}

MaxCapacity == 5 * PAGE_SIZE
Offsets == 0 .. (MaxCapacity - 1)
NothingWritten == [k \in Offsets |-> -1]

NoKernel ==
  [reported |-> {}, opened |-> {}, dirs |-> {}, released |-> {}]

\* the filesystem right after mount()
\* no list, directory view or member reader of the archive layer is in use
NoLibs ==
  /\ list = [l |-> LinkHead_new, linked |-> << >>, made |-> 0]
  /\ adir = NoArchiveDir
  /\ wr = NoWrapperReader

NoMount ==
  /\ showfs = ShowFS_new
  /\ kernel = NoKernel
  /\ NoLibs

NoCacheSide ==
  /\ NoMount
  /\ file = [m \in Members |-> 0]
  /\ stream = [m \in Members |-> 0]
  /\ cache = [m \in Members |-> EmptyCache]
  /\ ls = [c \in CellIds |-> NoLS]
  /\ rd = [r \in Readers |-> NoReader]
  /\ opens = [m \in Members |-> 0]

InitPM ==
  /\ pm = PageManager_new(PMPages)
  /\ weak = [c \in CellIds |-> 0]
  /\ strong = [c \in CellIds |-> 0]
  /\ wrote = [c \in CellIds |-> NothingWritten]
  /\ NoCacheSide

\* let w = m.allocate(bytes)
Allocate(bytes) ==
  /\ Alive
  /\ FreshCell(pm) \in CellIds
  /\ LET c == FreshCell(pm)
         r == PageManager_allocate(pm, bytes, c)
     IN  /\ pm' = r.pm
         /\ weak' = IF r.ok THEN [weak EXCEPT ![c] = 1] ELSE weak
         /\ wrote' = [d \in CellIds |->
                        IF r.pm.cells[d].ptr = NoPage THEN NothingWritten ELSE wrote[d]]
  /\ UNCHANGED strong
  /\ UNCHANGED cache_side

\* let s = w.upgrade()
Upgrade(c) ==
  /\ Alive
  /\ weak[c] > 0
  /\ strong[c] < MaxStrong
  /\ IF can_upgrade(pm, c)
     THEN /\ pm' = RefPage_new(pm, c)
          /\ strong' = [strong EXCEPT ![c] = @ + 1]
     ELSE UNCHANGED << pm, strong >>
  /\ UNCHANGED << weak, wrote >>
  /\ UNCHANGED cache_side

\* let w = s.downgrade()
Downgrade(c) ==
  /\ Alive
  /\ strong[c] > 0
  /\ weak[c] < MaxWeak
  /\ pm' = RefPage_downgrade(pm, c)
  /\ weak' = [weak EXCEPT ![c] = @ + 1]
  /\ UNCHANGED << strong, wrote >>
  /\ UNCHANGED cache_side

\* drop(s)
DropStrong(c) ==
  /\ Alive
  /\ strong[c] > 0
  /\ pm' = RefPage_drop(pm, c)
  /\ strong' = [strong EXCEPT ![c] = @ - 1]
  /\ UNCHANGED << weak, wrote >>
  /\ UNCHANGED cache_side

\* drop(w)
DropWeak(c) ==
  /\ Alive
  /\ weak[c] > 0
  /\ pm' = WeakRefPage_drop(pm, c)
  /\ weak' = [weak EXCEPT ![c] = @ - 1]
  /\ UNCHANGED << strong, wrote >>
  /\ UNCHANGED cache_side

\* for slice in s.get_slices_mut(from) { fill the slice }
Write(c, from) ==
  /\ Alive
  /\ strong[c] > 0
  /\ pm' = write_from(pm, c, from, c)
  /\ wrote' = [wrote EXCEPT ![c] =
                 [k \in Offsets |->
                    IF k >= from /\ k < capacity(pm.hdr[pm.cells[c].ptr]) /\ ~pm'.panic
                    THEN Pattern(c, k) ELSE @[k]]]
  /\ UNCHANGED << weak, strong >>
  /\ UNCHANGED cache_side

\* for slice in s.get_slices(from) { .. }
Read(c, from) ==
  /\ Alive
  /\ strong[c] > 0
  /\ pm' = read_from(pm, c, from)
  /\ UNCHANGED << weak, strong, wrote >>
  /\ UNCHANGED cache_side

NextPM ==
  \/ \E bytes \in AllocBytes : Allocate(bytes)
  \/ \E c \in CellIds : Upgrade(c)
  \/ \E c \in CellIds : Downgrade(c)
  \/ \E c \in CellIds : DropStrong(c)
  \/ \E c \in CellIds : DropWeak(c)
  \/ \E c \in CellIds, from \in ReadFroms : Read(c, from)

SpecPM == InitPM /\ [][NextPM]_vars

\* The same client writing payloads and reading them back; it allocates one
\* byte count per layout: embedded, direct, relative with one and with two
\* second-level map pages.
RWBytes == {2, 8, 9, 17}

NextRW ==
  \/ \E bytes \in RWBytes : Allocate(bytes)
  \/ \E c \in CellIds : Upgrade(c)
  \/ \E c \in CellIds : DropStrong(c)
  \/ \E c \in CellIds : DropWeak(c)
  \/ \E c \in CellIds, from \in WriteFroms : Write(c, from)
  \/ \E c \in CellIds, from \in ReadFroms : Read(c, from)

SpecRW == InitPM /\ [][NextRW]_vars

\* The same client over an arena large enough for a byte count whose
\* indirection pages outnumber the slots of the embedded map: 9 data pages,
\* 3 indirection pages and the header.
BigPages == 13
BigBytes == {3, 17, 33}

InitBig ==
  /\ pm = PageManager_new(BigPages)
  /\ weak = [c \in CellIds |-> 0]
  /\ strong = [c \in CellIds |-> 0]
  /\ wrote = [c \in CellIds |-> NothingWritten]
  /\ NoCacheSide

NextBig ==
  \/ \E bytes \in BigBytes : Allocate(bytes)
  \/ \E c \in CellIds : Upgrade(c)
  \/ \E c \in CellIds : DropStrong(c)
  \/ \E c \in CellIds : DropWeak(c)

SpecBig == InitBig /\ [][NextBig]_vars

\* ------------------------------------------------------------------------
\* The member caches of one archive over one page manager, and the readers
\* of their clients (CacheFile::open, then read, seek and drop on the reader)
\* ------------------------------------------------------------------------
\* the arena, in pages
CachePages == 6
\* the archives: the sizes of the first member and of the others.  A relative
\* and a direct member that fit the arena one at a time but not together,
\* a direct and an embedded member that fit together, and a member that
\* exceeds the arena beside an embedded one.
Archive(a, b) == [m \in Members |-> IF m = 1 THEN a ELSE b]
Archives == {Archive(9, 5), Archive(3, 2), Archive(17, 2)}
\* the buffers of read()
MaxLen == 4
ReadLens == {1, MaxLen}
\* the most bytes the decoder returns per call
Chunks == {3}
\* how many decoder calls of one read() succeed before one fails
Failures == {NoFail, 1}
\* the positions seek() is asked for: up to MaxPast bytes past the member's end
MaxPast == 1
SeekStarts == {0, 3, 6}
SeekOffsets == {-1, 1}

InitCache ==
  /\ pm = PageManager_new(CachePages)
  /\ weak = [c \in CellIds |-> 0]
  /\ strong = [c \in CellIds |-> 0]
  /\ wrote = [c \in CellIds |-> NothingWritten]
  /\ file \in Archives
  /\ stream = file
  /\ NoMount
  /\ cache = [m \in Members |-> EmptyCache]
  /\ ls = [c \in CellIds |-> NoLS]
  /\ rd = [r \in Readers |-> NoReader]
  /\ opens = [m \in Members |-> 0]

\* the world w becomes the state
Becomes(w) ==
  /\ pm' = w.pm
  /\ cache' = w.cache
  /\ ls' = w.ls
  /\ opens' = w.opens
  /\ UNCHANGED << file, stream >>
  /\ UNCHANGED pm_client
  /\ UNCHANGED fs_side

\* let r = file.open(): Cache::make_reader for member m
MakeReader(r, m, open_ok) ==
  /\ Alive
  /\ rd[r] = NoReader
  /\ \A q \in Readers : q < r => rd[q] /= NoReader
  /\ \E res \in {make_reader(World, m, open_ok)} :
        /\ res.err /= "cap"
        /\ Becomes(res.w)
        /\ rd' = [rd EXCEPT ![r] = res.reader]

\* r.read(&mut buf) with buf.len() = len
ReadReader(r, len, chunk, budget) ==
  /\ Alive
  /\ rd[r] /= NoReader
  /\ \E res \in {reader_read(World, rd[r], len, chunk, budget)} :
        /\ Becomes(res.w)
        /\ rd' = [rd EXCEPT ![r] = res.reader]

\* r.seek(pos); a sum that wraps around is a panic in a build with overflow
\* checks and the wrapped value otherwise
SeekReader(r, whence, i, checked) ==
  /\ Alive
  /\ rd[r] /= NoReader
  /\ LET res == seek(rd[r], whence, i)
     IN  /\ res.reader.pos <= rd[r].size + MaxPast
         /\ IF res.overflow /\ checked
            THEN /\ pm' = [pm EXCEPT !.panic = TRUE]
                 /\ UNCHANGED rd
            ELSE /\ rd' = [rd EXCEPT ![r] = res.reader]
                 /\ UNCHANGED pm
  /\ UNCHANGED << file, stream, cache, ls, opens, fs_side >>
  /\ UNCHANGED pm_client

\* drop(r)
DropReader(r) ==
  /\ Alive
  /\ rd[r] /= NoReader
  /\ Becomes(reader_drop(World, rd[r]))
  /\ rd' = [rd EXCEPT ![r] = NoReader]

NextCache ==
  \/ \E r \in Readers, m \in Members, open_ok \in BOOLEAN : MakeReader(r, m, open_ok)
  \/ \E r \in Readers, len \in ReadLens, chunk \in Chunks, budget \in Failures :
        ReadReader(r, len, chunk, budget)
  \/ \E r \in Readers, n \in SeekStarts : SeekReader(r, "Start", n, FALSE)
  \/ \E r \in Readers, i \in SeekOffsets, checked \in BOOLEAN :
        SeekReader(r, "End", i, checked)
  \/ \E r \in Readers, i \in SeekOffsets, checked \in BOOLEAN :
        SeekReader(r, "Current", i, checked)
  \/ \E r \in Readers : DropReader(r)

SpecCache == InitCache /\ [][NextCache]_vars

\* A client that scans the archive: it opens a member, reads it until a read
\* returns no bytes, drops the reader, and goes on to any member.
AtEnd(r) ==
  /\ rd[r] /= NoReader
  /\ \E res \in {reader_read(World, rd[r], 1, 1, NoFail)} :
        res.ok /\ res.data = << >> /\ res.w = World

ScanOpen(m) ==
  /\ \A r \in Readers : rd[r] = NoReader
  /\ MakeReader(1, m, TRUE)

ScanRead(len, chunk) ==
  /\ rd[1] /= NoReader
  /\ ~AtEnd(1)
  /\ ReadReader(1, len, chunk, NoFail)

ScanClose ==
  /\ AtEnd(1)
  /\ DropReader(1)

NextScan ==
  \/ \E m \in Members : ScanOpen(m)
  \/ \E len \in ReadLens, chunk \in Chunks : ScanRead(len, chunk)
  \/ ScanClose

SpecScan == InitCache /\ [][NextScan]_vars

\* The member caches of an archive whose entries decode to more bytes than the
\* size their header declares (archive_entry_size is 0 when the format does
\* not record it): a member declared with 5 bytes and one declared with 0.
Excesses == {1, 4}

InitLong ==
  /\ pm = PageManager_new(CachePages)
  /\ weak = [c \in CellIds |-> 0]
  /\ strong = [c \in CellIds |-> 0]
  /\ wrote = [c \in CellIds |-> NothingWritten]
  /\ file = Archive(5, 0)
  /\ \E e \in Excesses : stream = [m \in Members |-> file[m] + e]
  /\ NoMount
  /\ cache = [m \in Members |-> EmptyCache]
  /\ ls = [c \in CellIds |-> NoLS]
  /\ rd = [r \in Readers |-> NoReader]
  /\ opens = [m \in Members |-> 0]

NextLong ==
  \/ \E r \in Readers, m \in Members : MakeReader(r, m, TRUE)
  \/ \E r \in Readers, len \in ReadLens, chunk \in Chunks, budget \in Failures :
        ReadReader(r, len, chunk, budget)
  \/ \E r \in Readers : DropReader(r)

SpecLong == InitLong /\ [][NextLong]_vars

\* ------------------------------------------------------------------------
\* The kernel calling the FUSE operations of a mounted ShowFS
\* ------------------------------------------------------------------------
\* the flags of open(), the room of a readdir reply buffer in entries
OpenFlags == {O_RDONLY, O_WRONLY, O_RDWR, O_RDONLY + O_NONBLOCK}
Rooms == {1, 2}
ReadSizes == {1}
ReadOutcomes == {"data", "seek", "read"}

below_fs == << pm, weak, strong, wrote, file, stream, cache, ls, rd, opens, libs >>

InitFS ==
  /\ pm = PageManager_new(CachePages)
  /\ weak = [c \in CellIds |-> 0]
  /\ strong = [c \in CellIds |-> 0]
  /\ wrote = [c \in CellIds |-> NothingWritten]
  /\ NoCacheSide

Lookup(parent, nm, attr_ok) ==
  /\ showfs.entries.inode <= MaxInode
  /\ \E res \in {lookup(showfs, parent, nm, attr_ok)} :
        /\ showfs' = res.fs
        /\ kernel' = [kernel EXCEPT
              !.reported = IF res.reply.kind = "entry"
                           THEN @ \cup {[parent |-> parent, name |-> nm, ino |-> res.reply.ino]}
                           ELSE @]
  /\ UNCHANGED below_fs

Open(ino, flags, open_ok) ==
  /\ showfs.handlers.fh < MaxFh
  /\ \E res \in {open(showfs, ino, flags, open_ok)} :
        /\ showfs' = res.fs
        /\ kernel' = [kernel EXCEPT
              !.opened = IF res.reply.kind = "opened" THEN @ \cup {res.reply.fh} ELSE @]
  /\ UNCHANGED below_fs

Release(fh) ==
  /\ \E res \in {release(showfs, fh)} :
        /\ showfs' = res.fs
        /\ kernel' = [kernel EXCEPT
              !.released = IF res.reply.kind = "ok" THEN @ \cup {fh} ELSE @]
  /\ UNCHANGED below_fs

ReadFile(fh, size, outcome) ==
  /\ \E res \in {read(showfs, fh, size, outcome)} :
        /\ showfs' = res.fs
        /\ UNCHANGED kernel
  /\ UNCHANGED below_fs

Opendir(ino, open_ok) ==
  /\ showfs.handlers.fh < MaxFh
  /\ \E res \in {opendir(showfs, ino, open_ok)} :
        /\ showfs' = res.fs
        /\ kernel' = [kernel EXCEPT
              !.dirs = IF res.reply.kind = "opened"
                       THEN @ \cup {[fh |-> res.reply.fh, ino |-> ino]} ELSE @]
  /\ UNCHANGED below_fs

Releasedir(fh) ==
  /\ \E res \in {releasedir(showfs, fh)} :
        /\ showfs' = res.fs
        /\ kernel' = [kernel EXCEPT
              !.released = IF res.reply.kind = "ok" THEN @ \cup {fh} ELSE @]
  /\ UNCHANGED below_fs

\* the kernel passes the inode the handle was opened on
Readdir(ino, fh, room, budget) ==
  /\ get_dir_mut(showfs.handlers, fh) =>
        /\ [fh |-> fh, ino |-> ino] \in kernel.dirs
        /\ showfs.entries.inode + Len(Dir_open(showfs.handlers.dir_handlers[fh]))
             <= MaxInode + 1
  /\ \E res \in {readdir(showfs, ino, fh, room, budget)} :
        /\ showfs' = res.fs
        /\ kernel' = [kernel EXCEPT
              !.reported = IF res.reply.kind = "ok"
                           THEN @ \cup {[parent |-> ino, name |-> res.reply.added[k].name,
                                         ino |-> res.reply.added[k].ino] :
                                           k \in 1 .. Len(res.reply.added)}
                           ELSE @]
  /\ UNCHANGED below_fs

NextFS ==
  \/ \E parent \in InodeIds, nm \in Names, attr_ok \in BOOLEAN : Lookup(parent, nm, attr_ok)
  \/ \E ino \in InodeIds, flags \in OpenFlags, open_ok \in BOOLEAN : Open(ino, flags, open_ok)
  \/ \E fh \in 0 .. MaxFh : Release(fh)
  \/ \E fh \in 0 .. MaxFh, size \in ReadSizes, outcome \in ReadOutcomes :
        ReadFile(fh, size, outcome)
  \/ \E ino \in InodeIds, open_ok \in BOOLEAN : Opendir(ino, open_ok)
  \/ \E fh \in 0 .. MaxFh : Releasedir(fh)
  \/ \E ino \in InodeIds, fh \in 0 .. MaxFh, room \in Rooms, budget \in Failures :
        Readdir(ino, fh, room, budget)

SpecFS == InitFS /\ [][NextFS]_vars

\* ------------------------------------------------------------------------
\* A client of the intrusive list: it pushes elements that are not linked and
\* unlinks elements that are, as the page manager does with its headers and
\* the allocator with its free runs.  list.linked is the sequence the list
\* stands for, front first; list.made counts the elements constructed so far
\* (elements are constructed in the order of their numbers).
\* ------------------------------------------------------------------------
all_but_libs ==
  << pm, weak, strong, wrote, file, stream, cache, ls, rd, opens, showfs, kernel >>

\* l.push_front(&mut e.link)
PushFront(e) ==
  /\ ~list.l.panic
  /\ e <= list.made + 1
  /\ list.l.prev[e] = NullLink
  /\ list' = [l |-> push_front(list.l, e), linked |-> << e >> \o list.linked,
              made |-> IF e > list.made THEN e ELSE list.made]
  /\ UNCHANGED << all_but_libs, adir, wr >>

\* e.link.unlink()
Unlink(e) ==
  /\ ~list.l.panic
  /\ list.l.prev[e] /= NullLink
  /\ list' = [list EXCEPT !.l = unlink(list.l, e),
                          !.linked = SelectSeq(list.linked, LAMBDA x : x /= e)]
  /\ UNCHANGED << all_but_libs, adir, wr >>

NextLink ==
  \/ \E e \in Elems : PushFront(e)
  \/ \E e \in Elems : Unlink(e)

SpecLink == InitPM /\ [][NextLink]_vars

\* ------------------------------------------------------------------------
\* A client of the directory views of one archive file: ArchiveViewer::view
\* makes the top-level Dir, and lookup, open and the handler's next are
\* called on it and on the Dirs they return.
\* ------------------------------------------------------------------------
\* the entries an archive may store, and the archives: every sequence of up
\* to MaxEntries of them, so every order, a path stored twice, a directory
\* both stored and implied, and a path stored as a file and used as a directory
EntryUniverse ==
  { [path |-> << "d" >>, kind |-> "Directory"],
    [path |-> << "d" >>, kind |-> "RegularFile"],
    [path |-> << "f" >>, kind |-> "RegularFile"],
    [path |-> << "d", "f" >>, kind |-> "RegularFile"],
    [path |-> << "d", "e" >>, kind |-> "Directory"],
    [path |-> << "d", "e", "f" >>, kind |-> "RegularFile"] }
MaxEntries == 3
ArchiveSet == UNION {[1 .. n -> EntryUniverse] : n \in 0 .. MaxEntries}
\* the names looked up; "x" is in no archive
LookupNames == {"d", "e", "f", "x"}
\* what may fail when the listing is made, and how many calls fail at most
Outcomes == {"ok", "getattr", "open", "walk"}
MaxTries == 2

Views == {adir.top} \cup adir.subs

\* the archive directory after a call on the view dir left d and dir and
\* returned the entries yielded
Viewed(d, dir, now, yielded) ==
  [d EXCEPT !.top = IF dir = adir.top THEN now ELSE @,
            !.subs = @ \cup {yielded[i].dir : i \in {j \in 1 .. Len(yielded) :
                                                      yielded[j].kind = "Dir"}}]

\* viewer.view(Entry::File(f)) for an archive file f
View(a) ==
  /\ ~adir.viewed
  /\ adir' = [NoArchiveDir EXCEPT !.viewed = TRUE, !.archive = a]
  /\ UNCHANGED << all_but_libs, list, wr >>

\* dir.lookup(nm)
DirLookup(dir, nm, outcome) ==
  /\ adir.viewed
  /\ outcome /= "ok" => adir.tries < MaxTries
  /\ \E r \in {ArchiveDir_lookup(adir, dir, nm, outcome)} :
        adir' = Viewed(r.d, dir, r.dir, IF r.ok THEN << r.entry >> ELSE << >>)
  /\ UNCHANGED << all_but_libs, list, wr >>

\* let h = dir.open()
DirOpen(dir, outcome) ==
  /\ adir.viewed
  /\ ~adir.handler.some
  /\ outcome /= "ok" => adir.tries < MaxTries
  /\ \E r \in {ArchiveDir_open(adir, dir, outcome)} :
        adir' = [Viewed(r.d, dir, r.dir, << >>) EXCEPT
                   !.handler = r.handler,
                   !.got = IF r.ok THEN << >> ELSE @]
  /\ UNCHANGED << all_but_libs, list, wr >>

\* h.next(); the handler is dropped once it has returned None
DirNext ==
  /\ adir.handler.some
  /\ \E r \in {DirHandler_next(adir.handler)} :
        adir' = IF r.some
                THEN [Viewed(adir, adir.top, adir.top, << r.entry >>) EXCEPT
                        !.handler = r.handler,
                        !.got = Append(@, r.entry)]
                ELSE [adir EXCEPT !.handler = NoHandler]
  /\ UNCHANGED << all_but_libs, list, wr >>

NextDir ==
  \/ \E a \in ArchiveSet : View(a)
  \/ \E dir \in Views, nm \in LookupNames, outcome \in Outcomes : DirLookup(dir, nm, outcome)
  \/ \E dir \in Views, outcome \in Outcomes : DirOpen(dir, outcome)
  \/ DirNext

SpecDir == InitPM /\ [][NextDir]_vars

\* ------------------------------------------------------------------------
\* A client reading one archive member through the wrapper Reader from the
\* start, read after read, as LoadingState::read_to_at_least does.
\* ------------------------------------------------------------------------
\* the members: every size up to MaxSize, every choice of the positions that
\* hold data (the others are holes), delivered one block per run of data or one
\* block per byte, with or without an empty block at the member's end.  The
\* byte at position k (from 1) is k, so that no data byte is zero.
MaxSize == 4
Layouts == UNION {[1 .. n -> BOOLEAN] : n \in 0 .. MaxSize}

\* the blocks of the positions from k on; run: the block being gathered
RECURSIVE BlocksFrom(_, _, _, _)
BlocksFrom(layout, k, run, whole) ==
  IF k > Len(layout) THEN (IF run.data = << >> THEN << >> ELSE << run >>)
  ELSE IF ~layout[k]
  THEN (IF run.data = << >> THEN << >> ELSE << run >>)
       \o BlocksFrom(layout, k + 1, [offset |-> k, data |-> << >>], whole)
  ELSE IF whole \/ run.data = << >>
  THEN BlocksFrom(layout, k + 1,
                  [offset |-> IF run.data = << >> THEN k - 1 ELSE run.offset,
                   data |-> Append(run.data, k)], whole)
  ELSE << run >> \o BlocksFrom(layout, k + 1, [offset |-> k - 1, data |-> << k >>], whole)

MemberOf(layout, whole, marked) ==
  [size |-> Len(layout),
   blocks |-> BlocksFrom(layout, 1, [offset |-> 0, data |-> << >>], whole)
              \o (IF marked THEN << [offset |-> Len(layout), data |-> << >>] >> ELSE << >>)]
SparseMembers ==
  {MemberOf(layout, whole, marked) : layout \in Layouts, whole \in BOOLEAN, marked \in BOOLEAN}

\* the buffers of read()
BufLens == {1, 2, MaxSize}

\* archive.find_open(..) has found the member: Reader::new
OpenMember(member) ==
  /\ ~wr.opened
  /\ wr' = [NoWrapperReader EXCEPT !.opened = TRUE, !.member = member]
  /\ UNCHANGED << all_but_libs, list, adir >>

\* r.read(&mut buf) with buf.len() = len
ReadMember(len, fatal) ==
  /\ wr.opened /\ ~wr.failed /\ ~wr.done /\ ~wr.r.bad
  /\ \E res \in {Reader_read(wr.r, wr.member, len, fatal)} :
        wr' = [wr EXCEPT !.r = res.r,
                         !.out = @ \o res.data,
                         !.done = res.ok /\ res.n = 0,
                         !.failed = ~res.ok]
  /\ UNCHANGED << all_but_libs, list, adir >>

\* drop(r)
CloseMember ==
  /\ wr.opened
  /\ wr.done \/ wr.failed
  /\ wr' = NoWrapperReader
  /\ UNCHANGED << all_but_libs, list, adir >>

NextSparse ==
  \/ \E member \in SparseMembers : OpenMember(member)
  \/ \E len \in BufLens, fatal \in BOOLEAN : ReadMember(len, fatal)
  \/ CloseMember

SpecSparse == InitPM /\ [][NextSparse]_vars

\* ------------------------------------------------------------------------
\* Properties of the page manager
\* ------------------------------------------------------------------------
Pages == PagesOf(pm)
LiveHeaders == {p \in Pages : pm.hdr[p].live}
Created == 1 .. pm.ncells

\* the pages of a free run
RunPages(run) == top(run) .. run.last

\* the pages an allocation reaches through its maps
MapPagesOf(m, hp) ==
  LET cnt == calc_page_count(m.hdr[hp].data_pages * PAGE_SIZE)
  IN  {map_read(m, hp, HEADER_SIZE + i * U32_SIZE) : i \in 0 .. (cnt[2] - 1)}
DataPagesOf(m, hp) ==
  IF m.hdr[hp].data_pages = 0 THEN {}
  ELSE {as_slice_mut(m, hp, n).page : n \in 0 .. (m.hdr[hp].data_pages - 1)}
OwnedPages(m, hp) == {hp} \cup MapPagesOf(m, hp) \cup DataPagesOf(m, hp)

FreeRuns(m) == 1 .. Len(m.free_list)
AllFreePages(m) == UNION {RunPages(m.free_list[i]) : i \in FreeRuns(m)}

\* C5: an allocation some RefPage is held on survives every step: its header
\* stays constructed for the same referencer cell, the cell keeps pointing at
\* it, and its pages stay the same pages and stay out of the free list.
HeldIsNotDeallocated ==
  [][\A hp \in LiveHeaders :
       pm.hdr[hp].use_count > 0 =>
         /\ pm'.hdr[hp].live
         /\ pm'.hdr[hp].referencer = pm.hdr[hp].referencer
         /\ pm'.cells[pm.hdr[hp].referencer].ptr = hp
         /\ OwnedPages(pm', hp) = OwnedPages(pm, hp)
         /\ OwnedPages(pm', hp) \cap AllFreePages(pm') = {}]_vars

\* an allocation is held while an allocation made before it has been evicted
\* and a later one exists: the eviction passed over the held one or came after it
HeldAcrossEviction ==
  \E c, d, e \in Created :
     /\ c < d /\ d < e
     /\ strong[c] > 0 /\ pm.cells[c].ptr /= NoPage
     /\ pm.cells[d].ptr = NoPage
     /\ pm.cells[e].ptr /= NoPage
     /\ Alive

\* C6: the use_count of every live allocation is the number of RefPage values
\* held on it, and a RefPage is only held on a live allocation.
UseCountIsHolders ==
  \A c \in CellIds :
     /\ strong[c] > 0 => pm.cells[c].ptr /= NoPage
     /\ pm.cells[c].ptr /= NoPage =>
          /\ pm.hdr[pm.cells[c].ptr].live
          /\ pm.hdr[pm.cells[c].ptr].use_count = strong[c]
          /\ pm.hdr[pm.cells[c].ptr].use_count >= 0

TwoHolders ==
  \E c \in CellIds : strong[c] = 2 /\ pm.cells[c].ptr /= NoPage
                     /\ pm.hdr[pm.cells[c].ptr].use_count = 2

\* the pages of the allocations nobody holds
RECURSIVE SumPages(_, _)
SumPages(m, hs) ==
  IF hs = {} THEN 0
  ELSE LET hp == CHOOSE x \in hs : TRUE
       IN  all_pages(m.hdr[hp]) + SumPages(m, hs \ {hp})
UnusedPages(m) == SumPages(m, {hp \in PagesOf(m) : m.hdr[hp].live /\ m.hdr[hp].use_count = 0})

\* the byte counts asked for: up to one page more than the arena holds
ByteCounts == 0 .. ((BigPages + 1) * PAGE_SIZE)

\* what C7 says of one allocate(bytes) call made in the current state
AllocateAsClaimed(bytes) ==
  LET c == FreshCell(pm)
      r == PageManager_allocate(pm, bytes, c)
      short == need_pages(bytes) > free_pages(pm) + UnusedPages(pm)
  IN  /\ ~r.ok <=> short
      /\ ~short =>
           /\ ~r.pm.panic /\ ~r.pm.ub
           /\ r.pm.cells[c].ptr \in PagesOf(pm)
           /\ r.pm.hdr[r.pm.cells[c].ptr].live
           /\ r.pm.hdr[r.pm.cells[c].ptr].referencer = c

\* C7: in every state, allocate(bytes) returns None exactly when the pages
\* needed exceed the free pages plus the pages of the allocations with
\* use_count 0, and otherwise returns a weak reference to a new live allocation.
AllocateNoneIffShort ==
  (Alive /\ FreshCell(pm) \in CellIds) =>
     \A bytes \in ByteCounts : AllocateAsClaimed(bytes)

\* The same for the byte counts whose indirection pages fit the embedded map.
AllocateNoneIffShortWithinMap ==
  (Alive /\ FreshCell(pm) \in CellIds) =>
     \A bytes \in ByteCounts :
        calc_page_count(bytes)[2] <= embed_map_len => AllocateAsClaimed(bytes)

\* C8: upgrade gives a RefPage exactly for the cells whose allocation is still
\* constructed, and a cell that has refused keeps refusing in every later state,
\* whatever is allocated afterwards.
UpgradeIffLive ==
  /\ [](\A c \in Created :
          can_upgrade(pm, c) <=>
             \E hp \in LiveHeaders : pm.hdr[hp].referencer = c /\ pm.cells[c].ptr = hp)
  /\ [][\A c \in Created : ~can_upgrade(pm, c) => ~can_upgrade(pm', c)]_vars

\* the first allocation (its header was page 0) is evicted, a weak reference to
\* it is still held, and page 0 is the header of a later allocation
EvictedHeaderReused ==
  /\ weak[1] > 0 /\ pm.ncells >= 2 /\ ~can_upgrade(pm, 1)
  /\ \E d \in Created : d > 1 /\ pm.cells[d].ptr = 0 /\ pm.hdr[0].live

\* C9: every page of the arena is in exactly one free run or owned by exactly
\* one live allocation, and an allocation owns as many pages as its size takes.
PagesPartitioned ==
  /\ \A p \in Pages :
        Cardinality({i \in FreeRuns(pm) : p \in RunPages(pm.free_list[i])})
        + Cardinality({hp \in LiveHeaders : p \in OwnedPages(pm, hp)}) = 1
  /\ \A hp \in LiveHeaders :
        /\ OwnedPages(pm, hp) \subseteq Pages
        /\ Cardinality(OwnedPages(pm, hp)) = all_pages(pm.hdr[hp])

\* two allocations live, one of them relative, after an eviction, with free
\* pages in more than one run
PartitionAfterEviction ==
  /\ \E c \in Created : pm.cells[c].ptr = NoPage
  /\ Cardinality(LiveHeaders) >= 2
  /\ \E hp \in LiveHeaders : pm.hdr[hp].data_pages > embed_map_len
  /\ Len(pm.free_list) >= 2

\* C10: while an allocation is not evicted, every byte written to it is what
\* get_slices yields at that payload offset, and no access leaves the arena.
WrittenReadsBack ==
  /\ ~pm.ub
  /\ \A c \in CellIds :
        can_upgrade(pm, c) =>
          \A k \in Offsets :
             wrote[c][k] /= -1 => slices_byte(pm, pm.cells[c].ptr, k) = wrote[c][k]

\* a relative allocation with two indirection pages, made after an earlier
\* allocation was written and evicted, is written up to its last page and held
ReadBackRelative ==
  \E c \in CellIds :
     /\ c > 1 /\ ~can_upgrade(pm, 1)
     /\ can_upgrade(pm, c) /\ pm.hdr[pm.cells[c].ptr].data_pages > PAGE_MAP_LEN
     /\ wrote[c][4 * PAGE_SIZE] = Pattern(c, 4 * PAGE_SIZE)
     /\ slices_byte(pm, pm.cells[c].ptr, 4 * PAGE_SIZE) = Pattern(c, 4 * PAGE_SIZE)
     /\ strong[c] > 0

\* ------------------------------------------------------------------------
\* Properties of the member cache and its readers
\* ------------------------------------------------------------------------
\* the bytes [pos, min(pos + n, size)) of member m
Expected(m, pos, n) ==
  [j \in 1 .. (Min(pos + n, file[m]) - pos) |-> Content(m, pos + j - 1)]

\* C1: whatever the readers of a member have done so far, a read of any live
\* reader at its position pos with a buffer of n bytes returns the bytes
\* [pos, min(pos + n, size)) of the member and advances pos by their number;
\* it can only fail when the decoder fails.
ReadsReturnContent ==
  Alive =>
    \A r \in Readers :
       rd[r] /= NoReader =>
         \A len \in 1 .. MaxLen, chunk \in Chunks, budget \in Failures :
            LET res == reader_read(World, rd[r], len, chunk, budget)
                want == Expected(rd[r].member, rd[r].pos, len)
            IN  /\ budget = NoFail => res.ok
                /\ res.ok =>
                     /\ res.data = want
                     /\ res.reader.pos = rd[r].pos + Len(want)
                     /\ ~res.w.pm.panic /\ ~res.w.pm.ub

\* a LoadingReader that has read the relative member to its end and a
\* CacheReader of the same member in the middle of it
TwoReadersOverOneMember ==
  /\ Alive
  /\ rd[1].kind = "loading" /\ rd[2].kind = "cache"
  /\ rd[1].member = rd[2].member /\ file[rd[1].member] > embed_map_len * PAGE_SIZE
  /\ rd[1].pos = file[rd[1].member]
  /\ rd[2].pos > PAGE_SIZE /\ rd[2].pos < file[rd[2].member]

\* C2: a LoadingReader's read that returns no bytes leaves the decoder closed,
\* and from then on, while the allocation is not evicted, make_reader calls
\* no File::open and allocates nothing: it returns a CacheReader, served from
\* the Loaded state, that reads the member's content from its start.
SecondOpenFromLoaded ==
  Alive =>
    /\ \A r \in Readers, len \in 1 .. MaxLen :
          rd[r].kind = "loading" =>
            LET res == reader_read(World, rd[r], len, MaxLen, NoFail)
            IN  res.data = << >> => ~res.w.ls[rd[r].ref].open
    /\ \A m \in Members, open_ok \in BOOLEAN :
          LET st == cache[m]
          IN  (\/ st.state = "Loading" /\ ~ls[st.ref].open
               \/ st.state = "Loaded" /\ can_upgrade(pm, st.ref)) =>
                LET res == make_reader(World, m, open_ok)
                    all == reader_read(res.w, res.reader, file[m], MaxLen, NoFail)
                IN  /\ res.ok
                    /\ res.reader.kind = "cache"
                    /\ res.w.cache[m].state = "Loaded"
                    /\ res.w.opens = opens /\ opens[m] >= 1
                    /\ res.w.pm.ncells = pm.ncells
                    /\ all.data = Expected(m, 0, file[m])

\* the member was opened once, read to its end, and a reader made after that
\* has read it to its end again
ReadTwiceOpenedOnce ==
  \E m \in Members, r \in Readers :
     /\ cache[m].state = "Loaded" /\ opens[m] = 1 /\ pm.ncells = 1
     /\ rd[r].kind = "cache" /\ rd[r].member = m /\ rd[r].pos = file[m]
     /\ file[m] > PAGE_SIZE

\* the members fit the arena one by one, and not together
RECURSIVE PagesOfMembers(_)
PagesOfMembers(ms) ==
  IF ms = {} THEN 0
  ELSE LET m == CHOOSE x \in ms : TRUE
       IN  need_pages(file[m]) + PagesOfMembers(ms \ {m})
EachFitsNotAll ==
  /\ \A m \in Members : need_pages(file[m]) <= CachePages
  /\ PagesOfMembers(Members) > CachePages

\* C3: while the archive is scanned member by member, each reader dropped
\* before the next member is opened, no open fails with out-of-memory.
ScanNeverOutOfMemory ==
  (Alive /\ EachFitsNotAll /\ \A r \in Readers : rd[r] = NoReader) =>
     \A m \in Members : make_reader(World, m, TRUE).err /= "oom"

\* C4: when no reader of a member is left, the member's allocation, if it has
\* one that is not evicted, has use_count 0.
DroppedReadersUnpin ==
  \A m \in Members :
     (/\ \A r \in Readers : rd[r].member /= m
      /\ cache[m].state /= "Empty"
      /\ can_upgrade(pm, cache[m].ref)) =>
        pm.hdr[pm.cells[cache[m].ref].ptr].use_count = 0

\* ------------------------------------------------------------------------
\* Further properties of the page manager
\* ------------------------------------------------------------------------
\* the number of slices an allocation has: one for an embed allocation
slice_count(h) == IF h.data_pages = 0 THEN 1 ELSE h.data_pages

\* what C11 says of get_slices(from) / get_slices_mut(from) on allocation hp
SlicesAsClaimed(hp, from) ==
  LET h == pm.hdr[hp]
      first == from \div PAGE_SIZE
      ss == SliceIter_collect(pm, hp, first, from % PAGE_SIZE)
      whole == SliceIter_collect(pm, hp, 0, 0)
      base == IF h.data_pages = 0 THEN HEADER_SIZE ELSE 0
      size == IF h.data_pages = 0 THEN embed_size ELSE PAGE_SIZE
  IN  /\ Len(whole) = slice_count(h)
      /\ Len(ss) = IF first < slice_count(h) THEN slice_count(h) - first ELSE 0
      /\ \A k \in 1 .. Len(ss) :
            /\ ss[k].page = whole[first + k].page
            /\ ss[k].start = base + (IF k = 1 THEN from % PAGE_SIZE ELSE 0)
            /\ ss[k].len = size - (IF k = 1 THEN from % PAGE_SIZE ELSE 0)
      /\ \A j, k \in 1 .. Len(whole) : j /= k => whole[j].page /= whole[k].page
      /\ \A k \in 1 .. Len(whole) :
            /\ whole[k].page \in Pages
            /\ whole[k].page \notin MapPagesOf(pm, hp)
            /\ (whole[k].page = hp) = (h.data_pages = 0)

\* C11: for every live allocation and every start from within its payload,
\* the slices iterated from that start are the payload pages from page
\* from / PAGE_SIZE on, in index order and each once, the first beginning at
\* from % PAGE_SIZE, the others whole; from 0 an embed allocation yields one
\* slice and an allocation with d data pages yields d.
SlicesInIndexOrder ==
  \A hp \in LiveHeaders :
     \A from \in 0 .. capacity(pm.hdr[hp]) : SlicesAsClaimed(hp, from)

\* an embed, a direct and a relative allocation are live together and the
\* relative one, held and iterated last, yields its three pages
EmbedDirectRelativeLive ==
  /\ Alive
  /\ \E hp \in LiveHeaders : pm.hdr[hp].data_pages = 0
  /\ \E hp \in LiveHeaders : pm.hdr[hp].data_pages \in 1 .. embed_map_len
  /\ \E hp \in LiveHeaders :
        /\ pm.hdr[hp].data_pages > embed_map_len
        /\ pm.hdr[hp].use_count > 0
        /\ pm.lru[1] = hp /\ Len(pm.lru) = 3
        /\ Len(SliceIter_collect(pm, hp, 0, 0)) = 3
        /\ Len(SliceIter_collect(pm, hp, 1, 1)) = 2

\* ------------------------------------------------------------------------
\* Further properties of the member cache and its readers
\* ------------------------------------------------------------------------
\* make_reader on member m has to allocate: the cache is Empty, or Loaded
\* with its allocation evicted
MustAllocate(m) ==
  \/ cache[m].state = "Empty"
  \/ cache[m].state = "Loaded" /\ ~can_upgrade(pm, cache[m].ref)

\* the allocation for member m cannot be satisfied: the pages it needs exceed
\* the free pages and the pages of the allocations nobody holds
CannotSatisfy(m) == need_pages(file[m]) > free_pages(pm) + UnusedPages(pm)

\* C12: when make_reader has to allocate for a member and the page manager
\* cannot satisfy the allocation, make_reader fails with "oom", the cache of
\* the member is Empty afterwards, File::open is not called, no LoadingState
\* is made and no use count has changed.
OomLeavesEmpty ==
  Alive =>
    \A m \in Members, open_ok \in BOOLEAN :
       (MustAllocate(m) /\ CannotSatisfy(m) /\ FreshCell(pm) \in CellIds) =>
          LET res == make_reader(World, m, open_ok)
          IN  /\ ~res.ok /\ res.err = "oom" /\ res.reader = NoReader
              /\ res.w.cache[m].state = "Empty"
              /\ \A n \in Members : n /= m => res.w.cache[n] = cache[n]
              /\ res.w.ls = ls
              /\ res.w.opens = opens
              /\ res.w.pm.ncells = pm.ncells
              /\ ~res.w.pm.panic /\ ~res.w.pm.ub
              /\ \A hp \in Pages :
                    res.w.pm.hdr[hp].live =>
                      /\ pm.hdr[hp].live
                      /\ res.w.pm.hdr[hp].use_count = pm.hdr[hp].use_count
                      /\ res.w.pm.hdr[hp].referencer = pm.hdr[hp].referencer

\* a member that fits the arena was refused while the other member, still
\* Loading, held the pages: its size is known, it was never opened, it is Empty
RefusedWhileOtherLoads ==
  \E m, n \in Members :
     /\ m /= n /\ Alive
     /\ cache[m].state = "Empty" /\ cache[m].known /\ opens[m] = 0
     /\ need_pages(file[m]) <= CachePages
     /\ cache[n].state = "Loading" /\ CannotSatisfy(m)
     /\ \E r \in Readers : rd[r].member = n

\* the readers that share the LoadingState of member m
LoadingReadersOf(m) ==
  {r \in Readers : rd[r].kind = "loading" /\ rd[r].ref = cache[m].ref}

\* C13: while a member is Loading and its decoder is still open, make_reader
\* returns a LoadingReader at position 0 on the same LoadingState, calls no
\* File::open and allocates nothing, and, the decoder not failing, a read
\* through the new reader and a read through any older reader of the member
\* both return the member's bytes, in either order.
LoadingIsShared ==
  Alive =>
    \A m \in Members, open_ok \in BOOLEAN :
       (cache[m].state = "Loading" /\ ls[cache[m].ref].open) =>
          LET res == make_reader(World, m, open_ok)
              new == reader_read(res.w, res.reader, MaxLen, MaxLen, NoFail)
          IN  /\ res.ok
              /\ res.reader = [kind |-> "loading", size |-> file[m], pos |-> 0,
                               ref |-> cache[m].ref, member |-> m]
              /\ res.w.opens = opens
              /\ res.w.pm = pm
              /\ res.w.cache = cache
              /\ res.w.ls = [ls EXCEPT ![cache[m].ref].rc = @ + 1]
              /\ new.ok /\ new.data = Expected(m, 0, MaxLen)
              /\ \A r \in LoadingReadersOf(m), len \in ReadLens :
                    LET old == reader_read(new.w, rd[r], len, MaxLen, NoFail)
                        first == reader_read(res.w, rd[r], len, MaxLen, NoFail)
                        then == reader_read(first.w, res.reader, MaxLen, MaxLen, NoFail)
                    IN  /\ old.ok /\ old.data = Expected(m, rd[r].pos, len)
                        /\ first.ok /\ first.data = Expected(m, rd[r].pos, len)
                        /\ then.ok /\ then.data = Expected(m, 0, MaxLen)

\* two LoadingReaders of one member opened once: the older has read the first
\* bytes, the newer has read beyond them, and the decoder is still open
TwoLoadingReaders ==
  /\ Alive
  /\ rd[1].kind = "loading" /\ rd[2].kind = "loading"
  /\ rd[1].ref = rd[2].ref
  /\ opens[rd[1].member] = 1 /\ pm.ncells = 1
  /\ rd[1].pos > 0 /\ rd[2].pos > rd[1].pos
  /\ ls[rd[1].ref].open /\ ls[rd[1].ref].rc = 3
  /\ cache[rd[1].member].state = "Loading"

LoadingStates == {c \in CellIds : ls[c].rc > 0}

\* C15: the cached_size of a LoadingState never decreases in any step, be it
\* a read of one of the readers sharing it that returns bytes, that ends in
\* a decoder error or that meets EOF, or any other operation; and only a
\* read of a LoadingReader changes it.
CachedSizeNeverDecreases ==
  [][/\ \A c \in LoadingStates : ls'[c].cached_size >= ls[c].cached_size
     /\ \A c \in CellIds :
           ls'[c].cached_size /= ls[c].cached_size =>
              /\ c \in LoadingStates
              /\ \E r \in Readers : rd[r].kind = "loading" /\ rd[r].ref = c
                                    /\ rd'[r].ref = c]_vars

\* two readers share a LoadingState that has cached a part of its member: one
\* has been handed bytes, the other none of those the decoder has produced
CachedAheadOfReader ==
  \E c \in LoadingStates :
     /\ Alive
     /\ ls[c].rc = 3 /\ ls[c].open
     /\ ls[c].cached_size > PAGE_SIZE /\ ls[c].cached_size < file[ls[c].member]
     /\ rd[1].ref = c /\ rd[2].ref = c
     /\ rd[1].kind = "loading" /\ rd[2].kind = "loading"
     /\ rd[1].pos = 0 /\ rd[2].pos = ls[c].cached_size

\* C16: the cached_size of a LoadingState never exceeds the size declared
\* for its member, the size its allocation was made for.
CachedWithinDeclared ==
  \A c \in LoadingStates : ls[c].cached_size <= file[ls[c].member]

\* What bounds cached_size is the payload of the allocation: the embedded
\* buffer, or whole data pages.
CachedWithinCapacity ==
  \A c \in LoadingStates :
     can_upgrade(pm, c) => ls[c].cached_size <= capacity(pm.hdr[pm.cells[c].ptr])

\* every reader handed out has been dropped
NoReaderOutstanding == \A r \in Readers : rd[r] = NoReader

\* the allocation hp is the one a member's Loading state holds
HeldByLoading(hp) ==
  \E m \in Members : cache[m].state = "Loading" /\ pm.cells[cache[m].ref].ptr = hp

InodesAreStable ==
  /\ [](/\ \A t, u \in kernel.reported :
              /\ (t.parent = u.parent /\ t.name = u.name) => t.ino = u.ino
              /\ t.ino = u.ino => (t.parent = u.parent /\ t.name = u.name)
        /\ \A t \in kernel.reported :
              /\ t.ino /= 1
              /\ get_by_inode(showfs.entries, t.ino) =
                   Dir_lookup(get_by_inode(showfs.entries, t.parent), t.name)
              /\ get_by_path(showfs.entries, t.parent, t.name) = t.ino
        /\ get_by_inode(showfs.entries, 1) = RootEntry)
  /\ [][\A i \in InodeIds :
          get_by_inode(showfs.entries, i) /= NoEntry =>
             get_by_inode(showfs'.entries, i) = get_by_inode(showfs.entries, i)]_vars

\* the three entries of the tree have been reported, the two files of the
\* same name under different inodes, after an inode was reserved and not used
AllReportedAfterWaste ==
  /\ Cardinality(kernel.reported) = 3
  /\ showfs.entries.inode > Cardinality(kernel.reported) + 2
  /\ \E t, u \in kernel.reported : t.name = u.name /\ t.parent /= u.parent

\* C19: a release or a read with a handle id that open has not returned, or
\* that has been released, replies EBADF and changes nothing; and an id that
\* open or opendir returns has not been returned or released before.
BadHandleRefused ==
  /\ [](\A fh \in 0 .. MaxFh :
          (fh \notin kernel.opened \/ fh \in kernel.released) =>
             /\ release(showfs, fh) = [fs |-> showfs, reply |-> reply_error("EBADF")]
             /\ \A size \in ReadSizes, outcome \in ReadOutcomes :
                   read(showfs, fh, size, outcome) =
                     [fs |-> showfs, reply |-> reply_error("EBADF")])
  /\ [][/\ \A fh \in kernel'.opened \ kernel.opened :
              /\ fh \notin kernel.released
              /\ fh \notin {d.fh : d \in kernel.dirs}
        /\ \A d \in kernel'.dirs \ kernel.dirs :
              /\ d.fh \notin kernel.released
              /\ d.fh \notin kernel.opened
              /\ d.fh \notin {e.fh : e \in kernel.dirs}]_vars

\* a file handle was released and a file handle returned after it is still
\* open, beside a directory handle
OpenedAfterRelease ==
  \E f, g \in kernel.opened :
     /\ f < g /\ f \in kernel.released /\ g \notin kernel.released
     /\ get_file(showfs.handlers, g) /\ ~get_file(showfs.handlers, f)
     /\ kernel.dirs /= {}

\* the inodes of the files registered
FileInodes == {i \in InodeIds : get_by_inode(showfs.entries, i).kind = "File"}

\* C20: open on a file replies EINVAL and registers no handle when the access
\* mode of the flags is not O_RDONLY, and otherwise, File::open succeeding,
\* replies with a handle it has registered.
OnlyReadOnlyOpens ==
  showfs.handlers.fh < MaxFh =>
    \A ino \in FileInodes, flags \in OpenFlags :
       IF bit_and(flags, O_ACCMODE) /= O_RDONLY
       THEN \A open_ok \in BOOLEAN :
               open(showfs, ino, flags, open_ok) =
                 [fs |-> showfs, reply |-> reply_error("EINVAL")]
       ELSE /\ open(showfs, ino, flags, TRUE).reply = reply_opened(showfs.handlers.fh)
            /\ get_file(open(showfs, ino, flags, TRUE).fs.handlers, showfs.handlers.fh)
            /\ ~get_file(showfs.handlers, showfs.handlers.fh)

\* ------------------------------------------------------------------------
\* Properties of seek
\* ------------------------------------------------------------------------
\* the offsets seek is asked for
SeekInputs ==
  ({"Start"} \X SeekStarts) \cup ({"End", "Current"} \X SeekOffsets)

\* the position a seek is to reach
SeekTarget(reader, whence, i) ==
  IF whence = "Start" THEN i
  ELSE IF whence = "End" THEN reader.size + i
  ELSE reader.pos + i

\* C21: on either reader seek(Start(n)) sets the position to n, seek(End(i))
\* to size + i and seek(Current(i)) to pos + i, and a seek whose result would
\* be negative fails and leaves the reader unchanged; the sum does not
\* overflow, whichever way the build treats overflow.
SeekAsClaimed ==
  \A r \in Readers : rd[r] /= NoReader =>
     \A inp \in SeekInputs :
        LET res == seek(rd[r], inp[1], inp[2])
            target == SeekTarget(rd[r], inp[1], inp[2])
        IN  IF target < 0
            THEN ~res.ok /\ res.reader = rd[r]
            ELSE /\ res.ok /\ ~res.overflow
                 /\ res.reader = [rd[r] EXCEPT !.pos = target]

\* what holds of a build without overflow checks: the wrapped sum is the
\* position claimed
SeekAsClaimedWrapping ==
  \A r \in Readers : rd[r] /= NoReader =>
     \A inp \in SeekInputs :
        LET res == seek(rd[r], inp[1], inp[2])
            target == SeekTarget(rd[r], inp[1], inp[2])
        IN  IF target < 0
            THEN ~res.ok /\ res.reader = rd[r]
            ELSE res.ok /\ res.reader = [rd[r] EXCEPT !.pos = target]

\* ------------------------------------------------------------------------
\* Properties of the LRU
\* ------------------------------------------------------------------------
\* the allocations with use_count 0, least recently used first
UnusedFromTail(m) ==
  SelectSeq(Reverse(m.lru), LAMBDA hp : m.hdr[hp].use_count = 0)

\* the pages of the first k allocations of seq
RECURSIVE PagesOfFirst(_, _, _)
PagesOfFirst(m, seq, k) ==
  IF k = 0 THEN 0 ELSE all_pages(m.hdr[seq[k]]) + PagesOfFirst(m, seq, k - 1)

\* the allocations of the current state that are gone in m
EvictedIn(m) == {hp \in LiveHeaders : ~m.hdr[hp].live}

\* the shortfalls an allocate of the current state evicts for
Shortfalls ==
  {need_pages(bytes) - free_pages(pm) : bytes \in AllocBytes} \ (-PMPages .. 0)

\* what C22 says of one free_old_pages(lwm_pages) call made in the current state
EvictionAsClaimed(lwm_pages) ==
  LET f == free_old_pages(pm, lwm_pages)
      U == UnusedFromTail(pm)
  IN  \E k \in 0 .. Len(U) :
         /\ EvictedIn(f.pm) = {U[i] : i \in 1 .. k}
         /\ k > 0 => PagesOfFirst(pm, U, k - 1) < lwm_pages
         /\ f.ok <=> PagesOfFirst(pm, U, k) >= lwm_pages
         /\ ~f.ok => k = Len(U)
         /\ f.pm.lru = SelectSeq(pm.lru, LAMBDA hp : hp \notin EvictedIn(f.pm))

\* C22: when allocate has to evict, the victims are the least recently used
\* allocations with use_count 0, as many as it takes for their pages to reach
\* the shortfall and no more: an unused allocation survives only if every
\* victim was used less recently, and the last victim is the first with which
\* the freed pages reach the shortfall.
EvictsLruFirst ==
  Alive => \A lwm_pages \in Shortfalls : EvictionAsClaimed(lwm_pages)

\* two unused allocations, the one allocated first used more recently, and an
\* allocate this state allows that evicts the other one only
EvictsOneOfTwo ==
  /\ Alive
  /\ FreshCell(pm) \in CellIds
  /\ Len(UnusedFromTail(pm)) = 2
  /\ pm.hdr[pm.lru[Len(pm.lru)]].referencer = 2
  /\ \E lwm_pages \in Shortfalls :
        /\ free_old_pages(pm, lwm_pages).ok
        /\ EvictedIn(free_old_pages(pm, lwm_pages).pm) = {pm.lru[Len(pm.lru)]}

Range(seq) == {seq[i] : i \in 1 .. Len(seq)}

\* seq with hp moved to the front, the others keeping their order
MovedToFront(seq, hp) == << hp >> \o SelectSeq(seq, LAMBDA x : x /= hp)

\* the cells a RefPage is held on
Held == {c \in Created : strong[c] > 0}

\* C23: get_slices and get_slices_mut on a RefPage move its allocation to the
\* front of the LRU and keep the order of the others; allocate puts the new
\* allocation at the front of what the eviction leaves; upgrade, downgrade and
\* the drop of a RefPage or WeakRefPage leave the LRU as it is: a step that
\* neither allocates nor evicts changes the LRU only by such a move.
AccessMovesToFront ==
  /\ [](Alive =>
          /\ \A c \in Held :
                LET hp == pm.cells[c].ptr
                IN  /\ \A from \in ReadFroms :
                          read_from(pm, c, from).lru = MovedToFront(pm.lru, hp)
                    /\ \A from \in WriteFroms :
                          write_from(pm, c, from, c).lru = MovedToFront(pm.lru, hp)
                    /\ RefPage_downgrade(pm, c).lru = pm.lru
                    /\ RefPage_drop(pm, c).lru = pm.lru
          /\ \A c \in Created :
                (weak[c] > 0 /\ can_upgrade(pm, c)) => RefPage_new(pm, c).lru = pm.lru
          /\ FreshCell(pm) \in CellIds =>
                \A bytes \in AllocBytes :
                   LET r == PageManager_allocate(pm, bytes, FreshCell(pm))
                   IN  r.ok =>
                          /\ r.pm.lru /= << >>
                          /\ r.pm.cells[FreshCell(pm)].ptr = Head(r.pm.lru)
                          /\ Tail(r.pm.lru) =
                               SelectSeq(pm.lru, LAMBDA x : x \in Range(Tail(r.pm.lru))))
  /\ [][(pm'.ncells = pm.ncells /\ Range(pm'.lru) = Range(pm.lru)) =>
          \/ pm'.lru = pm.lru
          \/ \E c \in Held : /\ pm'.lru = MovedToFront(pm.lru, pm.cells[c].ptr)
                             /\ strong' = strong /\ weak' = weak]_vars

\* the allocation a RefPage is held on was at the tail of an LRU of three and
\* is at its front
TailCameToFront ==
  /\ Alive
  /\ Len(pm.lru) = 3
  /\ pm.hdr[pm.lru[1]].referencer = 1
  /\ pm.hdr[pm.lru[2]].referencer = 3
  /\ pm.hdr[pm.lru[3]].referencer = 2
  /\ strong[1] > 0

\* C24: the LRU holds the header of every live allocation once and no other
\* header: a header is linked when it is allocated, stays linked once however
\* often it is accessed, and is unlinked when it is deallocated.
LruIsLiveHeaders ==
  /\ Range(pm.lru) = LiveHeaders
  /\ Len(pm.lru) = Cardinality(LiveHeaders)

\* an allocation was deallocated, and of the two that are live the one
\* allocated first was re-linked in front of the other
RelinkedAfterEviction ==
  /\ \E c \in Created : pm.cells[c].ptr = NoPage
  /\ Len(pm.lru) = 2
  /\ pm.hdr[pm.lru[1]].referencer < pm.hdr[pm.lru[2]].referencer

\* ------------------------------------------------------------------------
\* Properties of the loading state
\* ------------------------------------------------------------------------
\* the LoadingReaders held
LoadingReaders == {r \in Readers : rd[r].kind = "loading"}

\* C25: a read of a LoadingReader whose range [pos, pos + len) lies below
\* cached_size succeeds without a call of the decoder (it succeeds even when
\* the next decoder call would fail) and leaves the loading state as it is:
\* cached_size, the decoder's position and the EOF flag.
CachedReadLeavesDecoder ==
  Alive =>
    \A r \in LoadingReaders, len \in ReadLens, chunk \in Chunks, budget \in Failures \cup {0} :
       rd[r].pos + len <= ls[rd[r].ref].cached_size =>
          LET res == LoadingReader_read(World, rd[r], len, chunk, budget)
          IN  /\ res.ok
              /\ res.w.ls = ls
              /\ res.w.opens = opens
              /\ Len(res.data) = len
              /\ res.reader = [rd[r] EXCEPT !.pos = @ + len]

\* a LoadingReader that has read from the cache what another one had the
\* decoder produce, the decoder not being at its end
ReadBehindAnother ==
  /\ Alive
  /\ rd[1].kind = "loading" /\ rd[2].kind = "loading" /\ rd[1].ref = rd[2].ref
  /\ ls[rd[1].ref].open
  /\ rd[2].pos > 0
  /\ rd[2].pos + MaxLen <= rd[1].pos
  /\ rd[1].pos = ls[rd[1].ref].cached_size

\* C26: the decoder of a LoadingState is read from its start onwards and
\* nothing else: what it has produced is what is cached, byte k of it at
\* payload offset k of the allocation; and while the LoadingState lives its
\* decoder never goes back and its member is not opened again, whichever of
\* its readers read and wherever they seek.
DecoderReadInSequence ==
  /\ [](Alive =>
          \A c \in LoadingStates :
             /\ ls[c].dpos = ls[c].cached_size
             /\ \A k \in 0 .. (ls[c].cached_size - 1) :
                   slices_byte(pm, pm.cells[c].ptr, k) = Content(ls[c].member, k))
  /\ [][\A c \in LoadingStates :
          ls'[c].rc > 0 =>
             /\ ls'[c].dpos >= ls[c].dpos
             /\ ls'[c].member = ls[c].member
             /\ opens'[ls[c].member] = opens[ls[c].member]]_vars

\* a LoadingState whose decoder is not at its end has cached more than a
\* page, and its two readers stand at different places of what is cached: one
\* within the first page, the other beyond it
DrivenByTwoReaders ==
  /\ Alive
  /\ rd[1].kind = "loading" /\ rd[2].kind = "loading" /\ rd[1].ref = rd[2].ref
  /\ ls[rd[1].ref].cached_size > PAGE_SIZE
  /\ ls[rd[1].ref].open
  /\ rd[1].pos > 0 /\ rd[1].pos < PAGE_SIZE
  /\ rd[2].pos > PAGE_SIZE /\ rd[2].pos < ls[rd[1].ref].cached_size

\* what C27 says of one make_reader call for member m made in the current state
MakeReaderAsClaimed(m, res) ==
  LET c == cache[m].ref
  IN  /\ res.ok =>
           (res.reader.kind = "loading" <=>
              /\ res.w.cache[m].state = "Loading"
              /\ ~is_eof(res.w.ls[res.w.cache[m].ref]))
      /\ (cache[m].state = "Loading" /\ ~is_eof(ls[c])) =>
           /\ res.ok
           /\ res.reader = [kind |-> "loading", size |-> file[m], pos |-> 0,
                            ref |-> c, member |-> m]
           /\ res.w.cache = cache
           /\ res.w.ls = [ls EXCEPT ![c].rc = @ + 1]
           /\ res.w.pm = pm
      /\ (cache[m].state = "Loading" /\ is_eof(ls[c])) =>
           /\ res.ok
           /\ res.w.cache = [cache EXCEPT ![m] =
                               [state |-> "Loaded", ref |-> c,
                                size |-> ls[c].cached_size, known |-> TRUE]]
           /\ res.w.ls[c].rc = ls[c].rc - 1
           /\ res.reader = [kind |-> "cache", size |-> ls[c].cached_size, pos |-> 0,
                            ref |-> c, member |-> m]
           /\ res.w.pm.cells[c].ptr = pm.cells[c].ptr
           /\ res.w.opens = opens

\* C27: make_reader returns a LoadingReader exactly when the state it comes
\* upon is Loading with a decoder that has not reached EOF (the state an Empty
\* cache has just been given included); upon Loading with EOF reached it makes
\* the state Loaded with the weak reference and cached_size, gives up the
\* cache's own hold on the LoadingState and returns a CacheReader of that size.
MakeReaderByState ==
  Alive =>
    \A m \in Members, open_ok \in BOOLEAN :
       make_reader(World, m, open_ok).err /= "cap" =>
          MakeReaderAsClaimed(m, make_reader(World, m, open_ok))

\* a member went from Loading at EOF to Loaded while a LoadingReader on it is
\* still held beside the CacheReader it was opened with
LoadedBesideLoadingReader ==
  /\ Alive
  /\ rd[1].kind = "loading" /\ rd[2].kind = "cache"
  /\ rd[1].member = rd[2].member /\ rd[1].ref = rd[2].ref
  /\ cache[rd[1].member].state = "Loaded"
  /\ cache[rd[1].member].size = file[rd[1].member]
  /\ ls[rd[1].ref].rc = 1

\* ------------------------------------------------------------------------
\* Properties of the page counts
\* ------------------------------------------------------------------------
\* the pages C28 gives for a byte count: data, indir
ClaimedData(bytes) ==
  IF bytes <= embed_size THEN 0
  ELSE (bytes \div PAGE_SIZE) + (IF bytes % PAGE_SIZE = 0 THEN 0 ELSE 1)
ClaimedIndir(bytes) ==
  IF ClaimedData(bytes) <= embed_map_len THEN 0
  ELSE (ClaimedData(bytes) \div PAGE_MAP_LEN)
       + (IF ClaimedData(bytes) % PAGE_MAP_LEN = 0 THEN 0 ELSE 1)
ClaimedPages(bytes) == 1 + ClaimedIndir(bytes) + ClaimedData(bytes)

\* the byte counts of a usize that are within two pages of its largest value
TopByteCounts == (USIZE_MOD - 2 * PAGE_SIZE) .. (USIZE_MOD - 1)

\* what C28 says of calc_page_count and need_pages for one byte count
CountsAsClaimed(bytes) ==
  /\ ~calc_page_count_overflows(bytes)
  /\ calc_page_count(bytes) = << ClaimedData(bytes), ClaimedIndir(bytes) >>
  /\ need_pages(bytes) = ClaimedPages(bytes)

\* what C28 says of one allocate(bytes) call made in the current state: one
\* that succeeds leaves that many pages fewer than the evictions gave, and the
\* deallocation of its allocation gives them back
TakesAsClaimed(bytes) ==
  LET c == FreshCell(pm)
      r == PageManager_allocate(pm, bytes, c)
      before == IF need_pages(bytes) > free_pages(pm)
                THEN free_old_pages(pm, need_pages(bytes) - free_pages(pm)).pm
                ELSE pm
  IN  (r.ok /\ ~r.pm.panic /\ ~r.pm.ub) =>
         /\ free_pages(before) - free_pages(r.pm) = ClaimedPages(bytes)
         /\ free_pages(AllocatedPage_deallocate(r.pm, r.pm.cells[c].ptr))
              = free_pages(r.pm) + ClaimedPages(bytes)
         /\ Cardinality(AllFreePages(AllocatedPage_deallocate(r.pm, r.pm.cells[c].ptr)))
              = Cardinality(AllFreePages(r.pm)) + ClaimedPages(bytes)

\* C28: for every byte count the pages needed are 1 + indir + data, data being
\* 0 for a count that fits the embedded payload and the count divided by
\* PAGE_SIZE rounded up otherwise, indir being 0 for data up to the embedded
\* map's length and data divided by PAGE_MAP_LEN rounded up otherwise; an
\* allocate that succeeds takes that many pages and the deallocation of its
\* allocation returns that many.
PageCountsAsClaimed ==
  /\ \A bytes \in ByteCounts \cup TopByteCounts : CountsAsClaimed(bytes)
  /\ (Alive /\ FreshCell(pm) \in CellIds) =>
        \A bytes \in ByteCounts : TakesAsClaimed(bytes)

\* what holds: the same for the byte counts whose rounding sum fits a usize
PageCountsAsClaimedBelowTop ==
  /\ \A bytes \in ByteCounts \cup TopByteCounts :
        bytes + PAGE_SIZE - 1 < USIZE_MOD => CountsAsClaimed(bytes)
  /\ (Alive /\ FreshCell(pm) \in CellIds) =>
        \A bytes \in ByteCounts : TakesAsClaimed(bytes)

\* ------------------------------------------------------------------------
\* Properties of the allocator
\* ------------------------------------------------------------------------
\* the pages of the arena that are in no free run
TakenPages == Pages \ AllFreePages(pm)

\* what C29 says of free(page) called in the current state
FreeAsClaimed(page) ==
  LET r == PageAllocator_free(pm, page)
      before_top == pm.free_list /= << >> /\ page + 1 = top(Head(pm.free_list))
  IN  /\ free_pages(r) = free_pages(pm) + 1
      /\ IF before_top
         THEN /\ Len(r.free_list) = Len(pm.free_list)
              /\ Head(r.free_list).last = Head(pm.free_list).last
              /\ RunPages(Head(r.free_list)) = RunPages(Head(pm.free_list)) \cup {page}
              /\ Tail(r.free_list) = Tail(pm.free_list)
         ELSE /\ Head(r.free_list) = [last |-> page, count |-> 1]
              /\ Tail(r.free_list) = pm.free_list

\* C29: free(p) extends the front run of the free list by p exactly when p is
\* the page before the top of that run; in every other case, the empty free
\* list included, it makes p a run of one page at the front of the list; the
\* other runs stay as they are.
FreeExtendsOrPushes ==
  Alive => \A page \in TakenPages : FreeAsClaimed(page)

\* the front run was made by a free and extended by another, other runs lie
\* behind it, and of the taken pages one is the page before its top and
\* another is not
FrontRunExtended ==
  /\ Alive
  /\ Len(pm.free_list) >= 2
  /\ Head(pm.free_list).count >= 2
  /\ Head(pm.free_list).last < PMPages - 1
  /\ \E p, q \in TakenPages : p + 1 = top(Head(pm.free_list)) /\ q + 1 < p

\* ------------------------------------------------------------------------
\* Properties of the deallocation
\* ------------------------------------------------------------------------
\* the pages the steps of a log free, in the order of the log
RECURSIVE FreedIn(_)
FreedIn(log) ==
  IF log = << >> THEN << >>
  ELSE (IF Head(log)[1] = "free" THEN << Head(log)[2] >> ELSE << >>) \o FreedIn(Tail(log))

\* the data pages of an allocation from the last payload index down, and its
\* indirection pages from the last down
DataPagesDown(m, hp) ==
  [n \in 1 .. m.hdr[hp].data_pages |->
     as_slice_mut(m, hp, m.hdr[hp].data_pages - n).page]
MapPagesDown(m, hp) ==
  LET rel_map_pages == calc_page_count(m.hdr[hp].data_pages * PAGE_SIZE)[2]
  IN  [i \in 1 .. rel_map_pages |->
         map_read(m, hp, HEADER_SIZE + (rel_map_pages - i) * U32_SIZE)]

\* what C30 says of the deallocation of the allocation with header hp
DeallocateAsClaimed(hp) ==
  LET log == AllocatedPage_deallocate(pm, hp).log
      steps == 1 .. Len(log)
  IN  /\ \E u, n \in steps :
            /\ u < n
            /\ log[u] = << "unlink", hp >>
            /\ log[n] = << "null", pm.hdr[hp].referencer >>
            /\ \A i \in steps : log[i][1] = "free" => n < i
      /\ FreedIn(log) = DataPagesDown(pm, hp) \o MapPagesDown(pm, hp) \o << hp >>
      /\ \A i, j \in steps :
            (i < j /\ log[i][1] = "free") => log[j] /= << "read", log[i][2] >>

\* C30: a deallocation unlinks the header from the LRU, then nulls the
\* referencer cell, then frees the data pages from the last payload index
\* down, then the indirection pages from the last down, and the header page
\* last; it reads no page it has freed.
DeallocatesInOrder ==
  Alive => \A hp \in LiveHeaders : DeallocateAsClaimed(hp)

\* an allocation was evicted, and the next allocate can evict the allocation
\* with two indirection pages that nobody holds
RelativeToEvict ==
  /\ Alive
  /\ FreshCell(pm) \in CellIds
  /\ \E c \in Created : pm.cells[c].ptr = NoPage
  /\ \E hp \in LiveHeaders :
        /\ pm.hdr[hp].use_count = 0
        /\ Len(MapPagesDown(pm, hp)) = 2
        /\ Len(DataPagesDown(pm, hp)) > PAGE_MAP_LEN

\* ------------------------------------------------------------------------
\* C31: in every reachable state no two runs of the free list are adjacent
\* in the arena, so that each run is a maximal span of consecutive free pages.
\* PageAllocator::free joins a page only to the front run and only when the
\* page is the one below its top: a page freed above a run, or next to a run
\* that is not at the front, starts a run of its own.
FreeRunsAreMaximal ==
  \A i, j \in FreeRuns(pm) :
     i /= j => pm.free_list[i].last + 1 /= top(pm.free_list[j])

\* ------------------------------------------------------------------------
\* the pages of the runs of the free list
RECURSIVE RunPagesCount(_)
RunPagesCount(runs) ==
  IF runs = << >> THEN 0 ELSE Head(runs).count + RunPagesCount(Tail(runs))

\* C37: in every reachable state free_count is the number of pages in the runs
\* of the free list, so that PageAllocator::allocate returns None exactly when
\* no page is free and never meets an empty list with free_count > 0, and
\* free_count plus the pages of the live allocations is the arena capacity.
FreeCountIsRunPages ==
  /\ pm.free_count = RunPagesCount(pm.free_list)
  /\ \A i \in FreeRuns(pm) : pm.free_list[i].count > 0
  /\ pm.free_count > 0 => pm.free_list /= << >>
  /\ PageAllocator_allocate(pm).page = NoPage <=> AllFreePages(pm) = {}
  /\ pm.free_count + SumPages(pm, LiveHeaders) = Cardinality(Pages)

\* after an eviction: three allocations were made, one is gone, and the free
\* pages are in more than one run beside a live allocation
CountedAcrossRuns ==
  /\ Alive
  /\ pm.ncells = MaxCells
  /\ \E c \in Created : pm.cells[c].ptr = NoPage
  /\ LiveHeaders /= {}
  /\ Len(pm.free_list) >= 2
  /\ pm.free_count > Len(pm.free_list)

\* ------------------------------------------------------------------------
\* what C38 says of one allocate(bytes) call made in the current state
FailedAllocateAsClaimed(bytes) ==
  LET c == FreshCell(pm)
      r == PageManager_allocate(pm, bytes, c)
  IN  ~r.ok =>
        /\ \A hp \in LiveHeaders :
              /\ r.pm.hdr[hp] = pm.hdr[hp]
              /\ can_upgrade(r.pm, pm.hdr[hp].referencer)
        /\ free_pages(r.pm) = free_pages(pm)

\* C38: an allocate call that returns None evicts nothing: every allocation
\* live before the call is live after it, its weak references still upgrade,
\* and free_pages is unchanged.  free_old_pages deallocates the unused
\* allocations as it walks and returns false only when the walk ends, so a
\* call that fails has evicted every allocation nobody holds.
FailedAllocateEvictsNothing ==
  (Alive /\ FreshCell(pm) \in CellIds) =>
     \A bytes \in AllocBytes : FailedAllocateAsClaimed(bytes)

\* ------------------------------------------------------------------------
\* the assignments to self.state C39 names
ClaimedTransitions ==
  { << "Loaded", "Empty" >>, << "Empty", "Loading" >>, << "Loading", "Loaded" >> }

\* what C39 says of one make_reader call made in the current state
MakeReaderEnds(m, res) ==
  LET t == res.w.trail
  IN  /\ Len(t) <= 3
      /\ \A i \in 1 .. Len(t) : t[i] \in ClaimedTransitions
      /\ \A i, j \in 1 .. Len(t) : i /= j => t[i] /= t[j]
      /\ \A i \in 1 .. Len(t) :
            /\ i = 1 => t[i][1] = cache[m].state
            /\ i > 1 => t[i][1] = t[i - 1][2]
      /\ IF res.ok
         THEN /\ res.reader.kind \in {"loading", "cache"}
              /\ res.reader.member = m
              /\ res.w.cache[m].state = (IF Len(t) = 0 THEN cache[m].state ELSE t[Len(t)][2])
         ELSE res.reader = NoReader /\ res.err \in {"oom", "io"}

\* C39: from every cache state make_reader returns a reader or an error after
\* at most three assignments to the cache state, each one of Loaded-stale to
\* Empty, Empty to Loading and Loading-at-EOF to Loaded, and it makes none of
\* them twice in one call.
MakeReaderTerminates ==
  Alive =>
    \A m \in Members, open_ok \in BOOLEAN :
       make_reader(World, m, open_ok).err /= "cap" =>
          MakeReaderEnds(m, make_reader(World, m, open_ok))

\* a member is Loaded with its allocation evicted for another member that is
\* Loaded in its turn: the next make_reader for the first empties its cache,
\* evicts the other and starts loading, all in one call
StaleBesideLoaded ==
  /\ Alive
  /\ \E m, n \in Members :
        /\ m /= n
        /\ cache[m].state = "Loaded" /\ ~loaded_is_live(pm, cache[m].ref)
        /\ cache[n].state = "Loaded" /\ loaded_is_live(pm, cache[n].ref)
        /\ make_reader(World, m, TRUE).w.trail
             = << << "Loaded", "Empty" >>, << "Empty", "Loading" >> >>
        /\ make_reader(World, m, TRUE).ok

\* ------------------------------------------------------------------------
\* Properties of the intrusive list
\* ------------------------------------------------------------------------
\* C32: under every series of push_front and unlink calls the list stands for
\* a sequence: push_front has put the element in front, unlink has removed
\* that element alone and left the others in their order (list.linked is
\* kept so), front_mut is the first of the sequence (the element pushed last
\* among those still linked), iter_reverse_mut yields the sequence from its
\* last element to its first, and is_empty holds iff no element is linked.
ListIsSequence ==
  /\ ~list.l.panic
  /\ is_empty(list.l) <=> list.linked = << >>
  /\ front_mut(list.l) = (IF list.linked = << >> THEN NullLink ELSE Head(list.linked))
  /\ iter_reverse_mut(list.l) = Reverse(list.linked)
  /\ \A e \in Elems :
        (\A i \in 1 .. Len(list.linked) : list.linked[i] /= e) =>
           list.l.prev[e] = NullLink /\ list.l.next[e] = NullLink
  /\ \A e \in Elems :
        /\ list.l.prev[e] = NullLink =>
             LET after == push_front(list.l, e)
             IN  /\ front_mut(after) = e
                 /\ iter_reverse_mut(after) = Reverse(list.linked) \o << e >>
        /\ list.l.prev[e] /= NullLink =>
             LET after == unlink(list.l, e)
             IN  /\ iter_reverse_mut(after)
                      = Reverse(SelectSeq(list.linked, LAMBDA x : x /= e))
                 /\ after.prev[e] = NullLink /\ after.next[e] = NullLink

\* four elements were pushed, one of them was unlinked, and the oldest was
\* unlinked and pushed again: it is in front of two newer ones
RelinkedInFront ==
  /\ list.made = 4
  /\ Len(list.linked) = 3
  /\ list.linked[1] = 1
  /\ list.linked[2] > list.linked[3]
  /\ front_mut(list.l) = 1
  /\ iter_reverse_mut(list.l) = Reverse(list.linked)

\* ------------------------------------------------------------------------
\* Properties of the archive directory views
\* ------------------------------------------------------------------------
\* C33 as stated: over any sequence of calls on a top-level view and the
\* views made from it the archive is opened and walked for its listing at
\* most once.  update_cache memoizes a listing only when the walk reaches the
\* end: after next_entry has returned an error the next call opens the
\* archive and walks it again.
ListingOpenedOnce == adir.opens <= 1

\* C33: the archive is walked to its end for the listing at most once; once
\* the listing is memoized no call on the top-level view or on a view or
\* handler made from it opens the archive again, and all of them hold that
\* one listing.  Only a call that failed is followed by another open.
ListingMemoizedOnce ==
  /\ [](/\ adir.walks <= 1
        /\ adir.top.dents.some <=> adir.walks = 1
        /\ adir.opens <= adir.walks + adir.tries
        /\ \A sub \in adir.subs : adir.top.dents.some /\ sub.dents = adir.top.dents
        /\ adir.handler.some =>
             adir.top.dents.some /\ adir.handler.dents = adir.top.dents.v)
  /\ [][adir.top.dents.some =>
          /\ adir'.opens = adir.opens
          /\ adir'.walks = adir.walks
          /\ adir'.top.dents = adir.top.dents]_vars

\* a walk failed, the next call opened the archive again and memoized the
\* listing, and a handler opened on a subdirectory view is yielding from it
HandlerOnSubdirectory ==
  /\ adir.opens = 2 /\ adir.walks = 1 /\ adir.tries >= 1
  /\ adir.handler.some /\ adir.handler.path = << "d" >>
  /\ adir.got /= << >>

\* the proper ancestors of a path, "" among them
Ancestors(path) == {SubSeq(path, 1, k) : k \in 0 .. (Len(path) - 1)}

\* C34: whatever the order of the entries, the memoized listing has a
\* Directory record for every ancestor directory of every entry and for
\* every directory the archive stores, and no path is in it as a Directory
\* more than once, be the directory stored, implied by a leaf path, or both.
ListingHasEachDirectoryOnce ==
  adir.top.dents.some =>
    LET dents == adir.top.dents.v
        Dirs(path) == {i \in 1 .. Len(dents) :
                         dents[i].kind = "Directory" /\ dents[i].path = path}
    IN  /\ \A k \in 1 .. Len(adir.archive) :
              /\ \A path \in Ancestors(adir.archive[k].path) : Cardinality(Dirs(path)) = 1
              /\ \E i \in 1 .. Len(dents) :
                    /\ dents[i].path = adir.archive[k].path
                    /\ dents[i].kind = adir.archive[k].kind
        /\ \A i, j \in 1 .. Len(dents) :
              (i /= j /\ dents[i].kind = "Directory" /\ dents[j].kind = "Directory")
                 => dents[i].path /= dents[j].path

\* the listing was made of an archive that stores a leaf below d/e first and
\* the directories d and d/e themselves afterwards
StoredAfterImplied ==
  /\ adir.top.dents.some
  /\ Len(adir.archive) = 3
  /\ adir.archive[1] = [path |-> << "d", "e", "f" >>, kind |-> "RegularFile"]
  /\ adir.archive[2] = [path |-> << "d" >>, kind |-> "Directory"]
  /\ adir.archive[3] = [path |-> << "d", "e" >>, kind |-> "Directory"]
  /\ Len(adir.top.dents.v) = 4

\* the entries C35 has a handler on the view dir yield: one for each listing
\* record whose parent is the path of the view, in the order of the listing
ChildRecords(dir) ==
  SelectSeq(dir.dents.v,
            LAMBDA e : path_parent(e.path).some /\ path_parent(e.path).v = dir.path)

\* what C35 says of the view dir
ViewAsClaimed(dir) ==
  LET yielded == DirHandler_collect(ArchiveDir_open(adir, dir, "ok").handler)
      children == ChildRecords(dir)
  IN  /\ Len(yielded) = Len(children)
      /\ \A i \in 1 .. Len(yielded) :
            /\ yielded[i].path = children[i].path
            /\ yielded[i].kind = (IF children[i].kind = "Directory" THEN "Dir" ELSE "File")
      /\ \A nm \in LookupNames :
            LET r == ArchiveDir_lookup(adir, dir, nm, "ok")
                same == {i \in 1 .. Len(yielded) : yielded[i].path = path_join(dir.path, nm)}
            IN  /\ r.ok <=> same /= {}
                /\ r.ok => \A i \in same : r.entry.kind = yielded[i].kind
                /\ ~r.ok => r.err = "ENOENT"

\* C35: on every view with its listing, readdir yields exactly the records
\* whose parent path is the path of the view, lookup(name) succeeds exactly
\* for the names readdir yields and returns an entry of the kind readdir
\* yields for that name, and fails with ENOENT for every other name.
ReaddirAndLookupAgree ==
  \A dir \in Views : dir.dents.some => ViewAsClaimed(dir)

\* no path is in the listing both as a file and as a directory
KindsAreUnique(dents) ==
  \A i, j \in 1 .. Len(dents) :
     dents[i].path = dents[j].path => dents[i].kind = dents[j].kind

\* The same where no path of the archive is both a file and a directory.
ReaddirAndLookupAgreeOnUniqueKinds ==
  \A dir \in Views :
     (dir.dents.some /\ KindsAreUnique(dir.dents.v)) => ViewAsClaimed(dir)

\* ------------------------------------------------------------------------
\* Properties of the member reader
\* ------------------------------------------------------------------------
\* the bytes of a member: each block's bytes at its logical offset, zero in
\* every gap, up to the member's size
ByteAt(member, k) ==
  IF \E b \in 1 .. Len(member.blocks) :
        k > member.blocks[b].offset
        /\ k <= member.blocks[b].offset + Len(member.blocks[b].data)
  THEN LET b == CHOOSE b \in 1 .. Len(member.blocks) :
                  k > member.blocks[b].offset
                  /\ k <= member.blocks[b].offset + Len(member.blocks[b].data)
       IN  member.blocks[b].data[k - member.blocks[b].offset]
  ELSE 0
Image(member) == [k \in 1 .. member.size |-> ByteAt(member, k)]

\* C36: while the decoder delivers the member's blocks, the bytes sequential
\* reads have returned are the member's bytes up to read_pos, each block's
\* bytes at its logical offset and zeros in every gap; a read returns no more
\* than its buffer holds, and it returns no byte only at the member's end, so
\* that the bytes returned in all are as many as the member's size.
SparseStreamIsImage ==
  (wr.opened /\ ~wr.failed) =>
     /\ ~wr.r.bad
     /\ Len(wr.out) = wr.r.read_pos
     /\ Len(wr.out) <= wr.member.size
     /\ wr.out = SubSeq(Image(wr.member), 1, Len(wr.out))
     /\ wr.done => Len(wr.out) = wr.member.size
     /\ \A len \in BufLens :
           LET res == Reader_read(wr.r, wr.member, len, FALSE)
           IN  /\ res.ok /\ res.n = Len(res.data) /\ res.n <= len
               /\ res.n = 0 <=> wr.r.read_pos = wr.member.size

\* a member with a hole at its start, one in its middle and one at its end
\* was read to the end
HolesReadAsZeros ==
  /\ wr.opened /\ wr.done
  /\ wr.member.size = 4
  /\ Len(wr.member.blocks) = 1
  /\ wr.out = << 0, 2, 0, 0 >>

====
